---- MODULE Spec2Model ----
(***************************************************************************)
(* Reversible video anonymization: the three-stage pipeline of             *)
(* scripts/video_pipeline.py (producer, worker, consumer, run_pipeline),   *)
(* the restore program of scripts/restore_video.py and the supervisor of   *)
(* scripts/anonymize_service.py.                                           *)
(*                                                                         *)
(* Real-valued coordinates reported by the tracker and the detector are    *)
(* kept in half units (the integer h stands for h/2), so that Python's     *)
(* round() (half to even) and int() (truncation toward zero) are computed  *)
(* and not assumed.                                                        *)
(***************************************************************************)
EXTENDS Integers, Sequences, FiniteSets, TLC

\* ---------------------------------------------------------------- bounds
MaxFrames == 3      \* frames of the input video in the pipeline scenario
MaxDim == 2         \* frame width and height in the single-frame scenario
MaxDet == 1         \* boxes the detector returns for one frame
MaxCommands == 3    \* commands the supervisor reads from stdin
MaxBoxes == 2       \* well-formed boxes of an MP4 file before its last box
MaxEmits == 2      \* event lines one thread writes to stdout
MaxPayload == 3     \* bytes of an enumerated pack
MaxKeyBytes == 33   \* bytes of a key given on the command line
MaxTruncated == 60  \* bytes of a file that was cut off

\* ------------------------------------------------------- program constants
QueueMaxsize == 32  \* Queue(maxsize=32)
NumWorkers == 1     \* num_workers = 1
NonceLen == 12      \* os.urandom(12)
TagLen == 16        \* GCM tag
Channels == 3       \* 3-channel 8-bit pixels

SENTINEL == [sentinel |-> TRUE]      \* sentinel = object()
OBF == 0                             \* value of a pixel an obfuscation kernel wrote
DefaultClasses == {"person", "car", "truck", "bus", "motorcycle", "motorbike"}
Labels == {"person", "dog"}          \* names[cls_id] of the boxes the detector reports
ValidKeyLens == {16, 24, 32}
JobIds == {"A", "B"}                 \* jobId of the supervisor's commands

Min(a, b) == IF a < b THEN a ELSE b
Max(a, b) == IF a > b THEN a ELSE b

\* ------------------------------------------------------------ conversions
\* int(round(v)) for v = h/2: Python rounds halves to the even neighbour.
RoundHalfEven(h) ==
    IF h % 2 = 0 THEN h \div 2
    ELSE LET lo == (h - 1) \div 2 IN IF lo % 2 = 0 THEN lo ELSE lo + 1

\* int(v) for v = h/2: truncation toward zero.
TruncInt(h) == IF h >= 0 THEN h \div 2 ELSE -((-h) \div 2)

\* max(0, min(v, dim - 1)): the clamp of a low corner. Without the max(0, ...):
ClampLoNoFloor(v, dim) == Min(v, dim - 1)
ClampLo(v, dim) == Max(0, Min(v, dim - 1))
\* max(0, min(v, dim)): the clamp of a high corner.
ClampHi(v, dim) == Max(0, Min(v, dim))

\* A bbox is <<x1, y1, x2, y2>>.
Degenerate(b) == b[3] <= b[1] \/ b[4] <= b[2]

\* The clamp of the four corners (lines 160-163, 195-198, 249-252).
ClampBox(b, w, h) ==
    <<ClampLo(b[1], w), ClampLo(b[2], h), ClampHi(b[3], w), ClampHi(b[4], h)>>

\* Line 159: a manual seed box, map(int, bbox) of integers.
ClampSeed(b, w, h) == ClampBox(b, w, h)

\* Lines 194-198: the tracker reports (x, y, w, h) as floats (half units here);
\* the corners are int(round(x)), int(round(y)), int(round(x + w)), int(round(y + h)).
TrackedCorners(t) ==
    <<RoundHalfEven(t[1]), RoundHalfEven(t[2]),
      RoundHalfEven(t[1] + t[3]), RoundHalfEven(t[2] + t[4])>>
ClampTracked(t, w, h) == ClampBox(TrackedCorners(t), w, h)

\* Lines 248-252: the detector reports xyxy as floats (half units here); the
\* corners are int(xyxy[k]).
DetectedCorners(d) == <<TruncInt(d[1]), TruncInt(d[2]), TruncInt(d[3]), TruncInt(d[4])>>
ClampDetected(d, w, h) == ClampBox(DetectedCorners(d), w, h)

\* ------------------------------------------------------------------ frames
\* A frame is a function from pixel <<x, y>> to its value.
Pix(w, h) == (0 .. w - 1) \X (0 .. h - 1)

\* The decoder's frame i: every pixel of the video has its own value (none is OBF).
SourceFrame(i, w, h) == [p \in Pix(w, h) |-> 1 + i * w * h + p[2] * w + p[1]]

InBox(p, b) == b[1] <= p[1] /\ p[1] < b[3] /\ b[2] <= p[2] /\ p[2] < b[4]

\* A numpy slice bound on an axis of dim entries: a negative bound counts from
\* the end, and the result is clipped to 0 .. dim.
SliceBound(v, dim) == IF v < 0 THEN Max(0, v + dim) ELSE Min(v, dim)

\* The pixels frame[y1:y2, x1:x2] selects in a frame of w by h pixels.
SliceBox(b, w, h) ==
    <<SliceBound(b[1], w), SliceBound(b[2], h), SliceBound(b[3], w), SliceBound(b[4], h)>>

\* tobytes() of a contiguous region: its pixels in row-major order.
RECURSIVE RowMajor(_, _, _, _)
RowMajor(f, b, x, y) ==
    IF y >= b[4] \/ b[3] <= b[1] THEN <<>>
    ELSE IF x >= b[3] THEN RowMajor(f, b, b[1], y + 1)
    ELSE <<f[<<x, y>>]>> \o RowMajor(f, b, x + 1, y)

\* roi = frame[y1:y2, x1:x2], flattened.
Roi(f, b, w, h) ==
    LET sb == SliceBox(b, w, h) IN RowMajor(f, sb, sb[1], sb[2])

\* Restore, line 202: frame[y1:y2, x1:x2] = array.reshape((height, width, 3)):
\* pixel (x, y) of the box takes element (y - y1) * roi_width + (x - x1) of the
\* flat buffer. Column by column instead of row by row:
PasteTransposed(f, b, flat) ==
    [p \in DOMAIN f |->
        IF InBox(p, b) THEN flat[(p[1] - b[1]) * (b[4] - b[2]) + (p[2] - b[2]) + 1]
        ELSE f[p]]
Paste(f, b, flat) ==
    [p \in DOMAIN f |->
        IF InBox(p, b) THEN flat[(p[2] - b[2]) * (b[3] - b[1]) + (p[1] - b[1]) + 1]
        ELSE f[p]]

\* apply_obfuscation: the kernel rewrites the pixels of frame[y1:y2, x1:x2], and
\* only those.
ApplyObfuscation(f, b, w, h) ==
    [p \in DOMAIN f |-> IF InBox(p, SliceBox(b, w, h)) THEN OBF ELSE f[p]]

\* ------------------------------------------------------------------ crypto
\* A key is [id, len]; a sealed blob is nonce | ciphertext | tag, kept as the key
\* that sealed it and the plaintext it opens to.
KeyLenOk(key) == key.len \in ValidKeyLens

EncryptRoi(roi, key) == [k |-> key.id, pt |-> roi]

BlobLen(blob) == NonceLen + Channels * Len(blob.pt) + TagLen

\* decrypt_roi: "short" | "invalid_tag" | "bad_length" | "ok".
DecryptStatus(blob, key, w, h) ==
    IF BlobLen(blob) < NonceLen + TagLen THEN "short"
    ELSE IF blob.k # key.id THEN "invalid_tag"
    ELSE IF Channels * Len(blob.pt) # h * w * Channels THEN "bad_length"
    ELSE "ok"

\* ------------------------------------------------------------- callbacks
\* Classes derived from Exception. concurrent.futures.CancelledError is one of
\* them (concurrent.futures._base.Error derives from Exception).
ExceptionClasses == {"CancelledError", "RuntimeError", "ValueError", "TypeError", "OSError"}

\* The supervisor's status_callback bridge: emit the event, then raise
\* CancelledError when the job's cancel event is set.
StatusCallback(cancelled) == IF cancelled THEN "CancelledError" ELSE "none"

\* _safe_callback: "returned" when the callback returned, "logged" when it raised
\* something `except Exception` catches, "propagated" otherwise.
\* Without the except clause every exception of the callback goes on to the caller:
SafeCallbackUncaught(raised) == IF raised = "none" THEN "returned" ELSE "propagated"
SafeCallback(raised) ==
    IF raised = "none" THEN "returned"
    ELSE IF raised \in ExceptionClasses THEN "logged"
    ELSE "propagated"

\* ----------------------------------------------------------------- queues
\* queue.Queue is FIFO: put appends, get takes the head. A LIFO put instead:
QueuePutFront(q, item) == <<item>> \o q
QueuePut(q, item) == Append(q, item)
\* Queue(maxsize=32): put blocks while the queue holds maxsize items. With no
\* maxsize:
NeverFull(q) == FALSE
QueueFull(q) == Len(q) >= QueueMaxsize

\* ------------------------------------------------------------ mp4_packager
\* Bytes are 0 .. 255 and a file's content is the sequence of its bytes.
\* struct.pack(">I", n) of a number given as two 16-bit limbs <<hi, lo>>
\* (n = hi * 65536 + lo), so that sizes up to 2^32 - 1 are written without
\* leaving the integers TLC computes with.
Limb == 65536
Big(n) == <<n \div Limb, n % Limb>>
BigAdd(a, b) == <<a[1] + b[1] + ((a[2] + b[2]) \div Limb), (a[2] + b[2]) % Limb>>
PackU32(n) == <<n[1] \div 256, n[1] % 256, n[2] \div 256, n[2] % 256>>
\* struct.pack(">Q", n) for n < 2^16.
PackU64(n) == <<0, 0, 0, 0, 0, 0, n \div 256, n % 256>>
\* struct.unpack(">I", b)[0] and struct.unpack(">Q", b)[0]: big-endian. A value
\* of 2^16 or more lies past the end of every file whose bytes are enumerated;
\* its low bytes are dropped (the result stays 2^16 or more), so that the
\* numbers stay within the integers TLC computes with.
RECURSIVE Unpack(_)
Unpack(b) ==
    IF b = <<>> THEN 0
    ELSE LET high == Unpack(SubSeq(b, 1, Len(b) - 1))
         IN IF high >= Limb THEN high ELSE high * 256 + b[Len(b)]

\* b"uuid", another box type (b"free"), DEFAULT_PACK_UUID.bytes and another UUID.
TypeUuid == <<117, 117, 105, 100>>
TypeFree == <<102, 114, 101, 101>>
DEFAULT_PACK_UUID == <<31, 12, 247, 213, 28, 60, 78, 37, 186, 157, 92, 176, 252, 97, 248, 71>>
OtherUuid == <<31, 12, 247, 213, 28, 60, 78, 37, 186, 157, 92, 176, 252, 97, 248, 72>>

\* A payload is its length (two limbs) and its bytes; the bytes of a payload of
\* some 4 GiB are not enumerated (bytes = <<>>, length as given).
PayloadOf(bytes) == [len |-> Big(Len(bytes)), bytes |-> bytes]

\* _build_uuid_box, lines 20-22: box_size = 4 + 4 + 16 + len(payload), refused
\* from 2^32 on. Refusing only above 2^32:
TooLargeAbove(box_size) == box_size[1] > Limb \/ (box_size[1] = Limb /\ box_size[2] > 0)
TooLarge(box_size) == box_size[1] >= Limb
BoxSize(len) == BigAdd(BigAdd(BigAdd(Big(4), Big(4)), Big(16)), len)
\* Lines 24-30: the header, to which the payload is appended.
UuidHeader(len, box_uuid) == PackU32(BoxSize(len)) \o TypeUuid \o box_uuid

\* stream.read(n) at position pos: up to n bytes, fewer at the end of the file.
StreamRead(f, pos, n) == SubSeq(f, pos + 1, Min(pos + n, Len(f)))

Extracted(payload) == [status |-> "ok", error |-> "", payload |-> payload]
ExtractFails(status, error) == [status |-> status, error |-> error, payload |-> <<>>]
MsgNoPack == "embedded pack not found in MP4"
MsgBoxSize == "invalid MP4 box size encountered"
MsgUuidLength == "invalid UUID box length"
MsgEof == "unexpected EOF when reading UUID payload"
MsgNoVideo == "video file not found"
MsgNoDataPack == "data pack not found"
MsgTooLarge == "payload too large for a standard ISO box"

\* Line 115: the box is ours when its UUID is the one looked for. Taking any
\* uuid box:
AnyUuid(uuid_field, box_uuid) == TRUE
UuidMatches(uuid_field, box_uuid) == uuid_field = box_uuid

\* Lines 122-124: stream.seek(payload_size, os.SEEK_CUR) and offset +=
\* payload_size move past the body of a box that is not the one looked for.
\* Moving into the body instead:
EnterBox(at, payload_size) == at
SkipBox(at, payload_size) == at + payload_size

\* Lines 102-103: a box that declares less than its header is refused. Without
\* the check:
NeverTooSmall(size, header_size) == FALSE
BoxTooSmall(size, header_size) == size < header_size

\* extract_pack_from_mp4, lines 81-126: the loop from `offset` (the count the
\* code keeps) and `pos` (the position of the stream); `visited` collects the
\* offsets at which the loop has read a box header.
RECURSIVE WalkBoxes(_, _, _, _, _)
WalkBoxes(f, offset, pos, box_uuid, visited) ==
    LET Fails(status, error, seen) ==
            [result |-> ExtractFails(status, error), visited |-> seen]
    IN
    IF ~(offset < Len(f)) THEN Fails("FileNotFoundError", MsgNoPack, visited)
    ELSE
    LET header == StreamRead(f, pos, 8) IN
    IF Len(header) < 8 THEN Fails("FileNotFoundError", MsgNoPack, visited)
    ELSE
    LET size32 == Unpack(SubSeq(header, 1, 4))
        box_type == SubSeq(header, 5, 8)
        largesize_bytes == StreamRead(f, pos + 8, 8)
        seen == Append(visited, offset)
    IN
    IF size32 = 1 /\ Len(largesize_bytes) < 8 THEN Fails("FileNotFoundError", MsgNoPack, seen)
    ELSE
    LET header_size == IF size32 = 1 THEN 16 ELSE 8
        offset1 == offset + header_size
        pos1 == pos + header_size
        declared == IF size32 = 1 THEN Unpack(largesize_bytes) ELSE size32
        size == IF declared = 0 THEN Len(f) - offset1 + header_size ELSE declared
        payload_size == size - header_size
    IN
    IF BoxTooSmall(size, header_size) THEN Fails("ValueError", MsgBoxSize, seen)
    ELSE IF box_type # TypeUuid
    THEN WalkBoxes(f, SkipBox(offset1, payload_size), SkipBox(pos1, payload_size),
                   box_uuid, seen)
    ELSE
    LET uuid_field == StreamRead(f, pos1, 16)
        rest == payload_size - 16
        payload == StreamRead(f, pos1 + 16, rest)
    IN
    IF Len(uuid_field) < 16 THEN Fails("FileNotFoundError", MsgNoPack, seen)
    ELSE IF rest < 0 THEN Fails("ValueError", MsgUuidLength, seen)
    ELSE IF UuidMatches(uuid_field, box_uuid)
    THEN IF Len(payload) # rest THEN Fails("ValueError", MsgEof, seen)
         ELSE [result |-> Extracted(payload), visited |-> seen]
    ELSE WalkBoxes(f, SkipBox(offset1 + 16, rest), SkipBox(pos1 + 16, rest),
                   box_uuid, seen)
ScanBoxes(f, offset, pos, box_uuid) == WalkBoxes(f, offset, pos, box_uuid, <<>>).result

\* A file of the file system: whether it exists, its bytes, and how many more
\* bytes follow that are not enumerated (the bytes of a payload of some 4 GiB).
NoFile == [exists |-> FALSE, bytes |-> <<>>, more |-> Big(0)]
FileOf(bytes) == [exists |-> TRUE, bytes |-> bytes, more |-> Big(0)]

\* extract_pack_from_mp4, lines 72-79.
ExtractPackFromMp4(file, box_uuid) ==
    IF ~file.exists THEN ExtractFails("FileNotFoundError", MsgNoVideo)
    ELSE ScanBoxes(file.bytes, 0, 0, box_uuid)
\* The offsets at which that call reads a box header.
VisitedOffsets(file, box_uuid) ==
    IF ~file.exists THEN <<>> ELSE WalkBoxes(file.bytes, 0, 0, box_uuid, <<>>).visited

\* Lines 60-61: open("ab") and write(uuid_box). Writing the box in front of
\* the file instead:
PrependBox(file, payload, box_uuid) ==
    [exists |-> TRUE,
     bytes |-> UuidHeader(payload.len, box_uuid) \o payload.bytes \o file.bytes,
     more |-> IF payload.bytes = <<>> THEN payload.len ELSE Big(0)]
AppendBox(file, payload, box_uuid) ==
    [exists |-> TRUE,
     bytes |-> file.bytes \o UuidHeader(payload.len, box_uuid) \o payload.bytes,
     more |-> IF payload.bytes = <<>> THEN payload.len ELSE Big(0)]

\* ------------------------------------------------------------------ state
VARIABLES
    \* inputs of the run (fixed by Init)
    width, height, nframes, coords, manual_rois, enable_detection, target_classes,
    encryption_key, hmac_key,
    \* what the caller's status callback raises on every event ("none": it returns)
    callback_raises,
    \* the job's cancel event and whether a cancellation signal was logged away
    cancel_flag, cancel_logged,
    \* whether an exception of the callback went through _safe_callback
    callback_fatal,
    \* producer
    p_pc, frame_index, frame_queue, fq_unfinished,
    \* worker
    w_pc, w_index, w_frame, processed_frame, tracker_entries, trackers_initialized,
    w_k, active_trackers, manual_metadata, detection_metadata, w_nboxes, det_seen,
    w_clamped,
    \* the ids of the trackers whose update succeeded on the frame being
    \* processed and whose clamped box was degenerate
    w_skipped,
    \* consumer
    processed_queue, pq_unfinished, c_pc, processed_count, video_out,
    \* the data of the `progress` events the consumer has passed to the callback
    progress_events,
    \* DataPackWriter
    pack_entries, pack_finalized, pack_key, finalize_calls,
    \* run_pipeline (the orchestrating thread)
    m_pc, main_events,
    \* restore_video.main
    r_pc, r_key, r_verified, r_cap_opened, r_writer_created, r_index, r_out, r_events,
    \* the supervisor (anonymize_service)
    jobs, threads, events, ncmd,
    \* mp4_packager: the files at video_path, pack_path and output_path, whether
    \* output_path is given, and what embed and extract ended with
    mp_video, mp_pack, mp_output, mp_outarg, mp_pc, mp_embed, mp_extract,
    \* the bytes the video file had at first, and how the file was built
    mp_input, mp_kind,
    \* the top-level boxes mp_input was made of, and the offsets at which extract
    \* read a box header
    mp_boxes, mp_visited,
    \* the pack of a second embed into the file that holds the first
    mp_second,
    \* stdout of the program that runs ("service": anonymize_service, "cli":
    \* anonymize_video --json-progress): _stdout_lock's holder, the chunks written
    \* so far, and for each thread where it is in an emit and how many events it
    \* still has to emit
    program, stdout_lock, stdout, e_pc, e_left,
    \* restore_video.main on a video of another resolution than the pack's: the
    \* size in the pack header, the size the video reports, the blocks stored for
    \* the frame, the frame being restored, whether the warning was logged, where
    \* main is, and what decrypt_roi raised
    pack_size, video_size, frame_blocks, rs_frame, rs_warned, rs_pc, rs_raised,
    \* the keys on the command lines of anonymize and restore: the --key and
    \* --hmac-key arguments, and what each program makes of the HMAC key
    key_arg, hmac_key_arg, anonymize_hmac, restore_hmac

cfgVars == <<width, height, nframes, coords, manual_rois, enable_detection,
             target_classes, encryption_key, hmac_key, callback_raises>>
cancelVars == <<cancel_flag, cancel_logged, callback_fatal>>
prodVars == <<p_pc, frame_index>>
fqVars == <<frame_queue, fq_unfinished>>
workVars == <<w_pc, w_index, w_frame, processed_frame, tracker_entries,
              trackers_initialized, w_k, active_trackers, manual_metadata,
              detection_metadata, w_nboxes, det_seen, w_clamped, w_skipped>>
pqVars == <<processed_queue, pq_unfinished>>
consVars == <<c_pc, processed_count, video_out, progress_events>>
packVars == <<pack_entries, pack_finalized, pack_key, finalize_calls>>
restVars == <<r_pc, r_key, r_verified, r_cap_opened, r_writer_created, r_index, r_out,
              r_events>>
svcVars == <<jobs, threads, events, ncmd>>
mpVars == <<mp_video, mp_pack, mp_output, mp_outarg, mp_pc, mp_embed, mp_extract,
            mp_input, mp_kind, mp_boxes, mp_visited, mp_second>>
ioVars == <<program, stdout_lock, stdout, e_pc, e_left>>
rsVars == <<pack_size, video_size, frame_blocks, rs_frame, rs_warned, rs_pc, rs_raised>>
kyVars == <<key_arg, hmac_key_arg, anonymize_hmac, restore_hmac>>
auxVars == <<mpVars, ioVars, rsVars, kyVars>>
vars == <<cfgVars, cancelVars, prodVars, fqVars, workVars, pqVars, consVars,
          packVars, m_pc, main_events, restVars, svcVars, auxVars>>

\* Lines 134-138: the classes whose detections are anonymized.
sensitive_classes == IF target_classes.given THEN target_classes.classes ELSE DefaultClasses

BlankFrame == [p \in Pix(width, height) |-> OBF]
Source(i) == SourceFrame(i, width, height)

\* Keys the callers hand over: a sound AES key, one of a length AES rejects, the
\* HMAC key, and a key that is not the job's.
GoodKey == [id |-> 1, len |-> 32]
ShortKey == [id |-> 2, len |-> 7]
HmacKey == [id |-> 3, len |-> 32]
OtherKey == [id |-> 4, len |-> 32]

\* ------------------------------------------------------------------ Init
FullBox == <<0, 0, width, height>>
\* --manual-roi: none, one box, a degenerate box before a sound one, two that overlap.
SeedChoices == { <<>>, <<FullBox>>, <<(<<0, 0, 0, 0>>), FullBox>> }
TwoSeeds == { <<(<<0, 0, 0, 0>>), FullBox>>, <<(<<-1, -1, 1, 1>>), FullBox>> }

ClassChoices ==
    { [enable |-> TRUE, tc |-> [given |-> FALSE, classes |-> {}]],
      [enable |-> FALSE, tc |-> [given |-> FALSE, classes |-> {}]],
      [enable |-> TRUE, tc |-> [given |-> TRUE, classes |-> {}]] }

InitThreads ==
    /\ cancel_flag = FALSE /\ cancel_logged = FALSE /\ callback_fatal = FALSE
    /\ p_pc = "open" /\ frame_index = 0
    /\ frame_queue = <<>> /\ fq_unfinished = 0
    /\ w_pc = "get" /\ w_index = 0 /\ w_frame = BlankFrame /\ processed_frame = BlankFrame
    /\ tracker_entries = <<>> /\ trackers_initialized = FALSE
    /\ w_k = 1 /\ active_trackers = <<>>
    /\ manual_metadata = <<>> /\ detection_metadata = <<>>
    /\ w_nboxes = 0 /\ det_seen = [called |-> FALSE, frame |-> BlankFrame]
    /\ w_clamped = FALSE /\ w_skipped = {}
    /\ processed_queue = <<>> /\ pq_unfinished = 0
    /\ c_pc = "open" /\ processed_count = 0 /\ video_out = <<>>
    /\ progress_events = <<>>
    /\ pack_entries = <<>> /\ pack_finalized = FALSE /\ pack_key = HmacKey
    /\ finalize_calls = 0
    /\ m_pc = "probe" /\ main_events = <<>>
    /\ r_pc = "idle" /\ r_key = GoodKey /\ r_verified = "not yet" /\ r_cap_opened = FALSE
    /\ r_writer_created = FALSE /\ r_index = 0 /\ r_out = <<>> /\ r_events = <<>>

InitService ==
    /\ jobs = [j \in JobIds |-> 0] /\ threads = <<>> /\ events = <<>> /\ ncmd = 0

\* No file is given to mp4_packager.
IdleMp4 ==
    /\ mp_video = NoFile /\ mp_pack = NoFile /\ mp_output = NoFile
    /\ mp_outarg = FALSE /\ mp_pc = "idle"
    /\ mp_embed = ExtractFails("none", "") /\ mp_extract = ExtractFails("none", "")
    /\ mp_input = <<>> /\ mp_kind = "none" /\ mp_boxes = <<>> /\ mp_visited = <<>>
    /\ mp_second = NoFile
\* Nothing is written to stdout.
EmitThreads == {"main", "runner", "worker", "consumer"}
IdleStdout ==
    /\ program = "none" /\ stdout_lock = "free" /\ stdout = <<>>
    /\ e_pc = [th \in EmitThreads |-> "idle"] /\ e_left = [th \in EmitThreads |-> 0]
\* restore_video is not run on a resized video.
IdleResize ==
    /\ pack_size = <<0, 0>> /\ video_size = <<0, 0>> /\ frame_blocks = <<>>
    /\ rs_frame = <<>> /\ rs_warned = FALSE /\ rs_pc = "idle" /\ rs_raised = "none"
\* A command-line key: omitted, or a string that is hex or not and decodes to
\* so many bytes.
NoKeyArg == [given |-> FALSE, hex |-> TRUE, nbytes |-> 0]
KeyPending == [status |-> "pending", nbytes |-> 0]
\* No key is being decoded.
IdleKeys ==
    /\ key_arg = NoKeyArg /\ hmac_key_arg = NoKeyArg
    /\ anonymize_hmac = KeyPending /\ restore_hmac = KeyPending
IdleAux == IdleMp4 /\ IdleStdout /\ IdleResize /\ IdleKeys

\* A whole video through the three stages: 1x1 frames, few reported coordinates,
\* regions from the trackers or from the detector; a key AES rejects in one setting.
InitPipeline ==
    /\ width = 1 /\ height = 1
    /\ nframes \in 0 .. MaxFrames
    /\ coords = {0, 2}
    /\ manual_rois \in SeedChoices
    /\ \E c \in ClassChoices : enable_detection = c.enable /\ target_classes = c.tc
    /\ (enable_detection /\ sensitive_classes # {}) => manual_rois = <<>>
    /\ encryption_key \in {GoodKey, ShortKey}
    /\ encryption_key = ShortKey => (manual_rois = <<FullBox>> /\ ~enable_detection)
    /\ hmac_key = HmacKey
    /\ callback_raises \in {"none", "OSError"}
    /\ InitThreads /\ InitService /\ IdleAux

\* The coordinates (half units) reported around a frame side of MaxDim pixels:
\* negative, zero, halves that round down and up, inside, and past the far edge.
FrameCoords == {-3, 0, 1, 2, 3, 2 * MaxDim + 1}

\* One frame in detail: a larger frame and many reported boxes, from two trackers
\* or from one tracker and the detector. The run is taken
\* up where the producer has put the only frame and its sentinel and has
\* finished, the encoder is open and run_pipeline waits in frame_queue.join().
InitFrame ==
    /\ width = MaxDim /\ height = MaxDim
    /\ nframes = 1
    /\ coords = FrameCoords
    /\ \/ manual_rois \in TwoSeeds /\ enable_detection = FALSE
       \/ manual_rois \in {<<>>, <<FullBox>>} /\ enable_detection = TRUE
    /\ target_classes = [given |-> FALSE, classes |-> {}]
    /\ encryption_key = GoodKey
    /\ hmac_key = HmacKey
    /\ callback_raises = "none"
    /\ cancel_flag = FALSE /\ cancel_logged = FALSE /\ callback_fatal = FALSE
    /\ p_pc = "done" /\ frame_index = 1
    /\ frame_queue = <<[frame_index |-> 0], SENTINEL>> /\ fq_unfinished = 2
    /\ w_pc = "get" /\ w_index = 0 /\ w_frame = BlankFrame /\ processed_frame = BlankFrame
    /\ tracker_entries = <<>> /\ trackers_initialized = FALSE
    /\ w_k = 1 /\ active_trackers = <<>>
    /\ manual_metadata = <<>> /\ detection_metadata = <<>>
    /\ w_nboxes = 0 /\ det_seen = [called |-> FALSE, frame |-> BlankFrame]
    /\ w_clamped = FALSE /\ w_skipped = {}
    /\ processed_queue = <<>> /\ pq_unfinished = 0
    /\ c_pc = "get" /\ processed_count = 0 /\ video_out = <<>>
    /\ progress_events = <<>>
    /\ pack_entries = <<>> /\ pack_finalized = FALSE /\ pack_key = HmacKey
    /\ finalize_calls = 0
    /\ m_pc = "join_fq" /\ main_events = <<"metadata">>
    /\ r_pc = "idle" /\ r_key = GoodKey /\ r_verified = "not yet" /\ r_cap_opened = FALSE
    /\ r_writer_created = FALSE /\ r_index = 0 /\ r_out = <<>> /\ r_events = <<>>
    /\ InitService /\ IdleAux

started == m_pc \notin {"probe", "raised_probe"}

\* --------------------------------------------------------------- producer
\* Lines 34-36: the capture opens, or producer raises before its try block.
ProducerOpen ==
    /\ started /\ p_pc = "open"
    /\ \E ok \in BOOLEAN : p_pc' = IF ok THEN "read" ELSE "raised"
    /\ UNCHANGED <<cfgVars, cancelVars, frame_index, fqVars, workVars, pqVars, consVars,
                   packVars, m_pc, main_events, restVars, svcVars, auxVars>>

\* Lines 41-45: one frame read and put (put blocks while the queue is full).
ProducerPut ==
    /\ p_pc = "read" /\ frame_index < nframes
    /\ ~QueueFull(frame_queue)
    /\ frame_queue' = QueuePut(frame_queue, [frame_index |-> frame_index])
    /\ fq_unfinished' = fq_unfinished + 1
    /\ frame_index' = frame_index + 1
    /\ UNCHANGED <<cfgVars, cancelVars, p_pc, workVars, pqVars, consVars, packVars, m_pc, main_events,
                   restVars, svcVars, auxVars>>

\* Lines 42-43, 46-47: read fails at the end of the video; the capture is released.
ProducerBreak ==
    /\ p_pc = "read" /\ frame_index >= nframes
    /\ p_pc' = "eos"
    /\ UNCHANGED <<cfgVars, cancelVars, frame_index, fqVars, workVars, pqVars, consVars,
                   packVars, m_pc, main_events, restVars, svcVars, auxVars>>

\* A producer that ends without putting the sentinel.
ProducerNoSentinel ==
    /\ p_pc = "eos"
    /\ p_pc' = "done"
    /\ UNCHANGED <<cfgVars, cancelVars, frame_index, fqVars, workVars, pqVars, consVars,
                   packVars, m_pc, main_events, restVars, svcVars, auxVars>>

\* Lines 49-50: one sentinel per worker.
ProducerSentinel ==
    /\ p_pc = "eos"
    /\ ~QueueFull(frame_queue)
    /\ frame_queue' = QueuePut(frame_queue, SENTINEL)
    /\ fq_unfinished' = fq_unfinished + 1
    /\ p_pc' = "done"
    /\ UNCHANGED <<cfgVars, cancelVars, frame_index, workVars, pqVars, consVars, packVars,
                   m_pc, main_events, restVars, svcVars, auxVars>>

\* ----------------------------------------------------------------- worker
ManualIds == <<"manual_0", "manual_1", "manual_2">>     \* f"manual_{idx}"

\* Lines 157-174: one tracker per seed box that is not degenerate after clamping;
\* seed k (counted from 1 here) gets the id manual_<k-1>.
RECURSIVE SeedEntries(_, _, _, _)
SeedEntries(rois, k, w, h) ==
    IF k > Len(rois) THEN <<>>
    ELSE (IF Degenerate(ClampSeed(rois[k], w, h)) THEN <<>> ELSE <<[id |-> ManualIds[k]]>>)
         \o SeedEntries(rois, k + 1, w, h)

\* Lines 202-203 and 256-257: the pixels that are sealed are those of the source
\* frame at the box (frame, not processed_frame).
\* Reading processed_frame instead:
SealedFromProcessed(frame, processed, b, w, h) == Roi(processed, b, w, h)
SealedPixels(frame, processed, b, w, h) == Roi(frame, b, w, h)

\* The callback of one event, through _safe_callback.
\* What the callback raises when it is called: its own exception, else the
\* bridge's cancellation signal.
CallbackRaised ==
    IF callback_raises # "none" THEN callback_raises ELSE StatusCallback(cancel_flag)
CallbackResult == SafeCallback(CallbackRaised)
NoteCallback ==
    /\ cancel_logged' = (cancel_logged
                         \/ (CallbackResult = "logged" /\ CallbackRaised = "CancelledError"))
    /\ callback_fatal' = (callback_fatal \/ CallbackResult = "propagated")

\* An exception leaves worker(): the finally of the loop body still marks the item done.
WorkerRaises ==
    /\ w_pc' = "raised"
    /\ fq_unfinished' = fq_unfinished - 1
    /\ UNCHANGED <<w_index, w_frame, processed_frame, tracker_entries,
                   trackers_initialized, w_k, active_trackers, manual_metadata,
                   detection_metadata, w_nboxes, det_seen, w_clamped, w_skipped>>

\* Line 176: `if enable_detection and sensitive_classes`. Calling the detector
\* on every frame instead:
DetectorAlwaysRuns == TRUE
DetectorRuns == enable_detection /\ sensitive_classes # {}

\* Lines 144-182: get an item; on a frame, copy it, seed the trackers once and call
\* the detector. r is what the detector does: -1 raises, r >= 0 returns r boxes.
WorkerGet ==
    /\ started /\ w_pc = "get" /\ frame_queue # <<>>
    /\ frame_queue' = Tail(frame_queue)
    /\ LET item == Head(frame_queue) IN
       IF item = SENTINEL
       THEN /\ w_pc' = "eos"
            /\ fq_unfinished' = fq_unfinished - 1
            /\ UNCHANGED <<w_index, w_frame, processed_frame, tracker_entries,
                           trackers_initialized, w_k, active_trackers, manual_metadata,
                           detection_metadata, w_nboxes, det_seen, w_clamped, w_skipped>>
       ELSE LET seed == manual_rois # <<>> /\ ~trackers_initialized
                entries == IF seed THEN SeedEntries(manual_rois, 1, width, height)
                           ELSE tracker_entries
                detect == DetectorRuns
            IN \E r \in (IF detect THEN -1 .. MaxDet ELSE {0}) :
                IF r = -1
                THEN WorkerRaises
                ELSE /\ w_index' = item.frame_index
                     /\ w_frame' = Source(item.frame_index)
                     /\ processed_frame' = Source(item.frame_index)
                     /\ tracker_entries' = entries
                     /\ trackers_initialized' = (trackers_initialized \/ seed)
                     /\ w_k' = 1
                     /\ active_trackers' = <<>>
                     /\ manual_metadata' = <<>>
                     /\ detection_metadata' = <<>>
                     /\ w_nboxes' = r
                     /\ det_seen' = [called |-> detect, frame |-> Source(item.frame_index)]
                     /\ w_pc' = IF entries # <<>> THEN "track"
                                ELSE IF r > 0 THEN "detect" ELSE "put"
                     /\ w_skipped' = {}
                     /\ UNCHANGED <<fq_unfinished, w_clamped>>
    /\ UNCHANGED <<cfgVars, cancelVars, prodVars, pqVars, consVars, packVars, m_pc, main_events,
                   restVars, svcVars, auxVars>>

\* The end of one pass of the tracker loop (lines 189-225): the next entry, or,
\* after the last one, tracker_entries = active_trackers and on to the boxes.
TrackNext(active, manual, processed, clamped) ==
    LET last == w_k >= Len(tracker_entries) IN
    /\ w_k' = IF last THEN 1 ELSE w_k + 1
    /\ active_trackers' = IF last THEN <<>> ELSE active
    /\ tracker_entries' = IF last THEN active ELSE tracker_entries
    /\ manual_metadata' = manual
    /\ processed_frame' = processed
    /\ w_clamped' = clamped
    /\ w_pc' = IF ~last THEN "track" ELSE IF w_nboxes > 0 THEN "detect" ELSE "put"
    /\ UNCHANGED <<w_index, w_frame, trackers_initialized, detection_metadata, w_nboxes,
                   det_seen, fq_unfinished>>

\* Lines 189-223: one tracker entry. The tracker raises, reports loss, or reports
\* a box (x, y, w, h).
WorkerTrack ==
    /\ w_pc = "track"
    /\ LET entry == tracker_entries[w_k] IN
       \/ /\ WorkerRaises /\ UNCHANGED cancelVars
       \/ /\ TrackNext(active_trackers, manual_metadata, processed_frame, w_clamped)
          /\ UNCHANGED <<cancelVars, w_skipped>>
       \/ \E x \in coords, y \in coords, w \in coords, h \in coords :
            LET b == ClampTracked(<<x, y, w, h>>, width, height) IN
            IF Degenerate(b)
            THEN /\ TrackNext(active_trackers, manual_metadata, processed_frame, w_clamped)
                 /\ w_skipped' = w_skipped \cup {entry.id}
                 /\ UNCHANGED cancelVars
            ELSE IF ~KeyLenOk(encryption_key)
            THEN WorkerRaises /\ UNCHANGED cancelVars
            ELSE LET block == [label |-> entry.id,
                               bbox |-> b,
                               encrypted |-> EncryptRoi(SealedPixels(w_frame, processed_frame, b, width, height),
                                                        encryption_key),
                               source |-> "manual"]
                 IN /\ UNCHANGED cancel_flag /\ NoteCallback
                    /\ IF CallbackResult = "propagated"
                       THEN WorkerRaises
                       ELSE /\ TrackNext(Append(active_trackers, entry),
                                         Append(manual_metadata, block),
                                         ApplyObfuscation(processed_frame, b, width, height),
                                         w_clamped \/ TrackedCorners(<<x, y, w, h>>) # b)
                            /\ UNCHANGED w_skipped
    /\ UNCHANGED <<cfgVars, prodVars, frame_queue, pqVars, consVars, packVars, m_pc, main_events,
                   restVars, svcVars, auxVars>>

\* The end of one pass of the box loop (lines 237-277).
DetectNext(detections, processed, clamped) ==
    /\ w_nboxes' = w_nboxes - 1
    /\ detection_metadata' = detections
    /\ processed_frame' = processed
    /\ w_clamped' = clamped
    /\ w_pc' = IF w_nboxes > 1 THEN "detect" ELSE "put"
    /\ UNCHANGED <<w_index, w_frame, tracker_entries, trackers_initialized, w_k,
                   active_trackers, manual_metadata, det_seen, fq_unfinished, w_skipped>>

\* Lines 237-277: one box of the detector's result, with its label and xyxy.
WorkerDetect ==
    /\ w_pc = "detect"
    /\ \/ /\ \E label \in Labels : label \notin sensitive_classes
          /\ DetectNext(detection_metadata, processed_frame, w_clamped)
          /\ UNCHANGED cancelVars
       \/ \E label \in Labels \cap sensitive_classes :
          \E x1 \in coords, y1 \in coords, x2 \in coords, y2 \in coords :
            LET b == ClampDetected(<<x1, y1, x2, y2>>, width, height) IN
            IF Degenerate(b)
            THEN DetectNext(detection_metadata, processed_frame, w_clamped) /\ UNCHANGED cancelVars
            ELSE IF ~KeyLenOk(encryption_key)
            THEN WorkerRaises /\ UNCHANGED cancelVars
            ELSE LET block == [label |-> label,
                               bbox |-> b,
                               encrypted |-> EncryptRoi(SealedPixels(w_frame, processed_frame, b, width, height),
                                                        encryption_key),
                               source |-> "detection"]
                 IN /\ UNCHANGED cancel_flag /\ NoteCallback
                    /\ IF CallbackResult = "propagated"
                       THEN WorkerRaises
                       ELSE DetectNext(Append(detection_metadata, block),
                                       ApplyObfuscation(processed_frame, b, width, height),
                                       w_clamped \/ DetectedCorners(<<x1, y1, x2, y2>>) # b)
    /\ UNCHANGED <<cfgVars, prodVars, frame_queue, pqVars, consVars, packVars, m_pc, main_events,
                   restVars, svcVars, auxVars>>

\* Lines 279-286: the result is put (put blocks while the queue is full), then the
\* frame-queue item is marked done.
WorkerPut ==
    /\ w_pc = "put"
    /\ ~QueueFull(processed_queue)
    /\ processed_queue' = QueuePut(processed_queue,
                                   [frame_index |-> w_index,
                                    frame |-> processed_frame,
                                    metadata |-> manual_metadata \o detection_metadata])
    /\ pq_unfinished' = pq_unfinished + 1
    /\ fq_unfinished' = fq_unfinished - 1
    /\ w_pc' = "get"
    /\ w_frame' = BlankFrame /\ processed_frame' = BlankFrame
    /\ manual_metadata' = <<>> /\ detection_metadata' = <<>>
    /\ det_seen' = [called |-> FALSE, frame |-> BlankFrame]
    /\ UNCHANGED <<w_index, tracker_entries, trackers_initialized, w_k, active_trackers,
                   w_nboxes, w_clamped>>
    /\ w_skipped' = {}
    /\ UNCHANGED <<cfgVars, cancelVars, prodVars, frame_queue, consVars, packVars, m_pc, main_events,
                   restVars, svcVars, auxVars>>

\* A worker that signals the consumer twice.
WorkerSentinelTwice ==
    /\ w_pc = "eos"
    /\ ~QueueFull(processed_queue)
    /\ processed_queue' = QueuePut(QueuePut(processed_queue, SENTINEL), SENTINEL)
    /\ pq_unfinished' = pq_unfinished + 2
    /\ w_pc' = "done"
    /\ UNCHANGED <<w_index, w_frame, processed_frame, tracker_entries,
                   trackers_initialized, w_k, active_trackers, manual_metadata,
                   detection_metadata, w_nboxes, det_seen, w_clamped, w_skipped>>
    /\ UNCHANGED <<cfgVars, cancelVars, prodVars, fqVars, consVars, packVars, m_pc, main_events,
                   restVars, svcVars, auxVars>>

\* Line 289: after the loop, the sentinel for the consumer.
WorkerSentinel ==
    /\ w_pc = "eos"
    /\ ~QueueFull(processed_queue)
    /\ processed_queue' = QueuePut(processed_queue, SENTINEL)
    /\ pq_unfinished' = pq_unfinished + 1
    /\ w_pc' = "done"
    /\ UNCHANGED <<w_index, w_frame, processed_frame, tracker_entries,
                   trackers_initialized, w_k, active_trackers, manual_metadata,
                   detection_metadata, w_nboxes, det_seen, w_clamped, w_skipped>>
    /\ UNCHANGED <<cfgVars, cancelVars, prodVars, fqVars, consVars, packVars, m_pc, main_events,
                   restVars, svcVars, auxVars>>

\* --------------------------------------------------------- DataPackWriter
\* write_frame_data(i, regions): one FrameEntry appended to the pack body.
WriteFrameData(entries, i, regions) ==
    Append(entries, [frame_index |-> i, regions |-> regions])

\* DataPackReader.verify(hmac_key): the trailer HMAC recomputed over the body.
Verify(sealed_with, hk, tampered) == ~tampered /\ hk.id = sealed_with.id

\* --------------------------------------------------------------- consumer
\* Lines 303-306: the encoder opens, or consumer raises.
ConsumerOpen ==
    /\ started /\ c_pc = "open"
    /\ \E ok \in BOOLEAN : c_pc' = IF ok THEN "get" ELSE "raised"
    /\ UNCHANGED <<cfgVars, cancelVars, prodVars, fqVars, workVars, pqVars,
                   processed_count, video_out, progress_events, packVars, m_pc, main_events,
                   restVars, svcVars, auxVars>>

\* Line 317: `data_pack_writer is not None and metadata`; the writer is always
\* given by run_pipeline, and an empty list is false. Writing every frame instead:
AlwaysPacked(metadata) == TRUE
HasRegions(metadata) == metadata # <<>>

\* Lines 321-330: the data of the progress event, built after processed_count
\* += 1. With the count taken before the increment:
ProgressDataBefore(index, count) ==
    [frame_index |-> index, processed |-> count - 1]
ProgressData(index, count) ==
    [frame_index |-> index, processed |-> count]

\* Lines 312-331: one item. fail is what goes wrong: nothing, write_frame_data
\* raises, or the encoder's write raises.
ConsumerGet ==
    /\ c_pc = "get" /\ processed_queue # <<>>
    /\ processed_queue' = Tail(processed_queue)
    /\ pq_unfinished' = pq_unfinished - 1
    /\ LET item == Head(processed_queue) IN
       IF item = SENTINEL
       THEN /\ c_pc' = "done"
            /\ UNCHANGED <<processed_count, video_out, progress_events, packVars, cancelVars>>
       ELSE \E fail \in {"none", "pack", "encoder"} :
            LET packed == HasRegions(item.metadata) IN
            /\ fail = "pack" => packed
            /\ pack_entries' = IF packed /\ fail # "pack"
                               THEN WriteFrameData(pack_entries, item.frame_index, item.metadata)
                               ELSE pack_entries
            /\ UNCHANGED <<pack_finalized, pack_key, finalize_calls, cancel_flag>>
            /\ IF fail # "none"
               THEN /\ c_pc' = "raised"
                    /\ UNCHANGED <<processed_count, video_out, progress_events,
                                   cancel_logged, callback_fatal>>
               ELSE /\ video_out' = Append(video_out, [frame_index |-> item.frame_index,
                                                       frame |-> item.frame])
                    /\ processed_count' = processed_count + 1
                    /\ progress_events' = Append(progress_events,
                                                 ProgressData(item.frame_index,
                                                              processed_count + 1))
                    /\ NoteCallback
                    /\ c_pc' = IF CallbackResult = "propagated" THEN "raised" ELSE "get"
    /\ UNCHANGED <<cfgVars, prodVars, fqVars, workVars, m_pc, main_events, restVars, svcVars, auxVars>>

\* ----------------------------------------------------------- run_pipeline
\* Lines 355-420: probe the video, report `metadata`, create the pack writer and
\* start the three threads.
MainProbe ==
    /\ m_pc = "probe"
    /\ \E ok \in BOOLEAN :
         IF ~ok
         THEN m_pc' = "raised_probe" /\ UNCHANGED <<cancelVars, main_events>>
         ELSE /\ UNCHANGED cancel_flag /\ NoteCallback
              /\ main_events' = Append(main_events, "metadata")
              /\ m_pc' = IF CallbackResult = "propagated" THEN "raised_probe"
                         ELSE "join_producer"
    /\ UNCHANGED <<cfgVars, prodVars, fqVars, workVars, pqVars, consVars, packVars,
                   restVars, svcVars, auxVars>>

\* Line 422: producer_thread.join().
MainJoinProducer ==
    /\ m_pc = "join_producer" /\ p_pc \in {"done", "raised"}
    /\ m_pc' = "join_fq" /\ UNCHANGED main_events
    /\ UNCHANGED <<cfgVars, cancelVars, prodVars, fqVars, workVars, pqVars, consVars,
                   packVars, restVars, svcVars, auxVars>>

\* Line 423: frame_queue.join() returns when every item put was marked done.
MainJoinFrameQueue ==
    /\ m_pc = "join_fq" /\ fq_unfinished = 0
    /\ m_pc' = "join_pq" /\ UNCHANGED main_events
    /\ UNCHANGED <<cfgVars, cancelVars, prodVars, fqVars, workVars, pqVars, consVars,
                   packVars, restVars, svcVars, auxVars>>

\* Line 424: processed_queue.join().
MainJoinProcessedQueue ==
    /\ m_pc = "join_pq" /\ pq_unfinished = 0
    /\ m_pc' = "join_worker" /\ UNCHANGED main_events
    /\ UNCHANGED <<cfgVars, cancelVars, prodVars, fqVars, workVars, pqVars, consVars,
                   packVars, restVars, svcVars, auxVars>>

\* Line 425: worker_thread.join().
MainJoinWorker ==
    /\ m_pc = "join_worker" /\ w_pc \in {"done", "raised"}
    /\ m_pc' = "join_consumer" /\ UNCHANGED main_events
    /\ UNCHANGED <<cfgVars, cancelVars, prodVars, fqVars, workVars, pqVars, consVars,
                   packVars, restVars, svcVars, auxVars>>

\* run_pipeline going on to finalize without waiting for the consumer thread.
MainSkipsJoinConsumer ==
    /\ m_pc = "join_consumer"
    /\ m_pc' = "finalizing" /\ UNCHANGED main_events
    /\ UNCHANGED <<cfgVars, cancelVars, prodVars, fqVars, workVars, pqVars, consVars,
                   packVars, restVars, svcVars, auxVars>>

\* Line 426: consumer_thread.join().
MainJoinConsumer ==
    /\ m_pc = "join_consumer" /\ c_pc \in {"done", "raised"}
    /\ m_pc' = "finalizing" /\ UNCHANGED main_events
    /\ UNCHANGED <<cfgVars, cancelVars, prodVars, fqVars, workVars, pqVars, consVars,
                   packVars, restVars, svcVars, auxVars>>

\* Line 428: `finalizing`.
MainFinalizing ==
    /\ m_pc = "finalizing"
    /\ UNCHANGED cancel_flag /\ NoteCallback
    /\ main_events' = Append(main_events, "finalizing")
    /\ m_pc' = IF CallbackResult = "propagated" THEN "raised" ELSE "finalize"
    /\ UNCHANGED <<cfgVars, prodVars, fqVars, workVars, pqVars, consVars, packVars,
                   restVars, svcVars, auxVars>>

\* Lines 430-433: finalize(hmac_key) returns the digest or raises; close() either way.
MainFinalize ==
    /\ m_pc = "finalize"
    /\ finalize_calls' = finalize_calls + 1
    /\ \E ok \in BOOLEAN :
         IF ok
         THEN /\ pack_finalized' = TRUE
              /\ pack_key' = hmac_key
              /\ m_pc' = "finalized"
         ELSE /\ UNCHANGED <<pack_finalized, pack_key>>
              /\ m_pc' = "raised"
    /\ UNCHANGED <<pack_entries, main_events>>
    /\ UNCHANGED <<cfgVars, cancelVars, prodVars, fqVars, workVars, pqVars, consVars,
                   restVars, svcVars, auxVars>>

\* Lines 435-437: `finalized`, and the digest is returned.
MainFinalized ==
    /\ m_pc = "finalized"
    /\ UNCHANGED cancel_flag /\ NoteCallback
    /\ main_events' = Append(main_events, "finalized")
    /\ m_pc' = IF CallbackResult = "propagated" THEN "raised" ELSE "done"
    /\ UNCHANGED <<cfgVars, prodVars, fqVars, workVars, pqVars, consVars, packVars,
                   restVars, svcVars, auxVars>>

\* cancel_job, line 195: the cancel event of the running job is set.
Cancel ==
    /\ started /\ m_pc \notin {"done", "raised"}
    /\ ~cancel_flag
    /\ cancel_flag' = TRUE
    /\ UNCHANGED <<cfgVars, cancel_logged, callback_fatal, prodVars, fqVars, workVars, pqVars, consVars,
                   packVars, m_pc, main_events, restVars, svcVars, auxVars>>

PipelineStep ==
    \/ ProducerOpen \/ ProducerPut \/ ProducerBreak \/ ProducerSentinel
    \/ WorkerGet \/ WorkerTrack \/ WorkerDetect \/ WorkerPut \/ WorkerSentinel
    \/ ConsumerOpen \/ ConsumerGet
    \/ MainProbe \/ MainJoinProducer \/ MainJoinFrameQueue \/ MainJoinProcessedQueue
    \/ MainJoinWorker \/ MainJoinConsumer \/ MainFinalizing \/ MainFinalize \/ MainFinalized

\* ---------------------------------------------------------------- restore
\* decode_key: the key must be 16, 24 or 32 bytes long.
DecodeKeyOk(key) == key.len \in {16, 24, 32}

\* load_data_pack, lines 98-100: frame_map[frame_index] = blocks, a later entry
\* of the same index replacing an earlier one; frame_map.get(i, []).
RECURSIVE FrameMapGet(_, _, _)
FrameMapGet(entries, i, k) ==
    IF k = 0 THEN <<>>
    ELSE IF entries[k].frame_index = i THEN entries[k].regions
    ELSE FrameMapGet(entries, i, k - 1)

\* Lines 190-194: a stored bbox clamped to the video's dimensions.
ClampStored(b, w, h) ==
    <<ClampLo(b[1], w), ClampLo(b[2], h), ClampHi(b[3], w), ClampHi(b[4], h)>>

\* Lines 184-202: the blocks of one frame, decrypted and pasted in order. The
\* result is the frame and "ok", or the status of the decrypt_roi that raised.
RECURSIVE RestoreBlocks(_, _, _, _, _, _)
RestoreBlocks(frame, blocks, k, key, w, h) ==
    IF k > Len(blocks) THEN [status |-> "ok", frame |-> frame]
    ELSE LET b == ClampStored(blocks[k].bbox, w, h)
             roi_width == Max(0, b[3] - b[1])
             roi_height == Max(0, b[4] - b[2])
         IN IF roi_width = 0 \/ roi_height = 0
            THEN RestoreBlocks(frame, blocks, k + 1, key, w, h)
            ELSE LET st == DecryptStatus(blocks[k].encrypted, key, roi_width, roi_height) IN
                 IF st # "ok" THEN [status |-> st, frame |-> frame]
                 ELSE RestoreBlocks(Paste(frame, b, blocks[k].encrypted.pt),
                                    blocks, k + 1, key, w, h)

\* load_data_pack, lines 94-96: what a failed verification does. Ignoring it:
LoadDataPackUnchecked(verified) == "loaded"
LoadDataPack(verified) == IF verified THEN "loaded" ELSE "RuntimeError"

\* Lines 125-128: the keys are decoded and the pack is loaded. The caller offers
\* an AES key k and an HMAC key hk; the pack may have been modified since sealing.
RestoreLoad ==
    /\ m_pc = "done" /\ r_pc = "idle"
    /\ \E k \in {encryption_key, OtherKey}, hk \in {hmac_key, OtherKey}, tampered \in BOOLEAN :
         LET verified == Verify(pack_key, hk, tampered)
             loaded == LoadDataPack(verified)
         IN
         IF ~DecodeKeyOk(k) \/ ~DecodeKeyOk(hk)
         THEN /\ r_pc' = "error"
              /\ r_events' = Append(r_events, "error")
              /\ UNCHANGED <<r_key, r_verified>>
         ELSE /\ r_verified' = IF verified THEN "true" ELSE "false"
              /\ IF loaded # "loaded"
                 THEN /\ r_pc' = "error"
                      /\ r_events' = Append(r_events, "error")
                      /\ UNCHANGED r_key
                 ELSE /\ r_pc' = "open"
                      /\ r_key' = k
                      /\ UNCHANGED r_events
    /\ UNCHANGED <<r_cap_opened, r_writer_created, r_index, r_out>>
    /\ UNCHANGED <<cfgVars, cancelVars, prodVars, fqVars, workVars, pqVars, consVars,
                   packVars, m_pc, main_events, svcVars, auxVars>>

\* Lines 130-173: the anonymized video is opened, then the output writer created.
RestoreOpen ==
    /\ r_pc = "open"
    /\ \E cap_ok \in BOOLEAN, writer_ok \in BOOLEAN :
         /\ r_cap_opened' = TRUE
         /\ r_writer_created' = cap_ok
         /\ IF cap_ok /\ writer_ok
            THEN r_pc' = "loop" /\ r_events' = Append(r_events, "metadata")
            ELSE r_pc' = "error" /\ r_events' = Append(r_events, "error")
    /\ UNCHANGED <<r_key, r_verified, r_index, r_out>>
    /\ UNCHANGED <<cfgVars, cancelVars, prodVars, fqVars, workVars, pqVars, consVars,
                   packVars, m_pc, main_events, svcVars, auxVars>>

\* Lines 178-218: one decoded frame: its blocks are restored and it is written;
\* at the end of the video, or when decrypt_roi raises, both handles are released.
RestoreFrame ==
    /\ r_pc = "loop"
    /\ IF r_index >= Len(video_out)
       THEN /\ r_pc' = "completed"
            /\ r_events' = Append(r_events, "completed")
            /\ UNCHANGED <<r_index, r_out>>
       ELSE LET res == RestoreBlocks(video_out[r_index + 1].frame,
                                     FrameMapGet(pack_entries, r_index, Len(pack_entries)),
                                     1, r_key, width, height)
            IN IF res.status # "ok"
               THEN /\ r_pc' = "error"
                    /\ r_events' = Append(r_events, "error")
                    /\ UNCHANGED <<r_index, r_out>>
               ELSE /\ r_out' = Append(r_out, res.frame)
                    /\ r_index' = r_index + 1
                    /\ r_events' = Append(r_events, "progress")
                    /\ UNCHANGED r_pc
    /\ UNCHANGED <<r_key, r_verified, r_cap_opened, r_writer_created>>
    /\ UNCHANGED <<cfgVars, cancelVars, prodVars, fqVars, workVars, pqVars, consVars,
                   packVars, m_pc, main_events, svcVars, auxVars>>

\* ------------------------------------------------------------- supervisor
\* jobs is _jobs: the thread (its place in threads) registered under a jobId, 0 when
\* none. A thread is [job, pc, cancel, cancel_running, terminal, code,
\* key_ok, stage_error, embed_pack, embedded]: pc follows
\* runner ("new", "call", "exit", "pop", then "returned": runner is over and the
\* thread is about to end, then "dead"); cancel is its JobState's cancel_event.

\* The keyword arguments run_anonymization passes to run_pipeline (lines 208-224)
\* beyond the positional ones, and the parameters run_pipeline declares (lines 336-348).
RunPipelineKwargs ==
    {"target_classes", "manual_rois", "status_callback", "style", "enable_detection",
     "worker_count", "cancel_event", "embed_pack", "embedded_output_path"}
RunPipelineParams ==
    {"video_path", "output_path", "model", "encryption_key", "data_pack_path", "hmac_key",
     "target_classes", "manual_rois", "status_callback", "style", "enable_detection"}

\* A Python call binds only when every keyword names a parameter: else TypeError.
CallBinds(kwargs, params) == kwargs \subseteq params

\* Thread.is_alive(): from start() until the thread has ended.
IsAlive(t) == t.pc # "dead"

\* start_job, lines 84-89: some registered job's thread is still alive. Without
\* the check:
NoJobAlive(js, ths) == FALSE
AnotherJobAlive(js, ths) == \E j \in JobIds : js[j] # 0 /\ IsAlive(ths[js[j]])

\* One JSON line on stdout: the jobId, the event, and what it carries (the exit
\* code of `exit`, the message of `error`, "" otherwise).
Emit(job, event, data) == [job |-> job, event |-> event, data |-> data]
MsgMissing == "Missing jobId or payload"
MsgRunning == "Another anonymization job is still running"
MsgNotFound == "Job not found"
MsgException == "str(exc)"

\* start_job. payload is "empty" (no payload: lines 79-82), "bad" (building the
\* request raises: lines 113-116), or sound with an AES key that is sound or not,
\* or sound with embedPack set (line 110).
StartJob ==
    /\ ncmd < MaxCommands
    /\ ncmd' = ncmd + 1
    /\ \E j \in JobIds, payload \in {"empty", "bad", "ok", "ok_badkey", "ok_embed"} :
         IF payload = "empty" \/ AnotherJobAlive(jobs, threads) \/ payload = "bad"
         THEN /\ events' = events \o
                   <<Emit(j, "error", IF payload = "empty" THEN MsgMissing
                                      ELSE IF AnotherJobAlive(jobs, threads) THEN MsgRunning
                                      ELSE MsgException),
                     Emit(j, "exit", "1")>>
              /\ UNCHANGED <<jobs, threads>>
         ELSE /\ threads' = Append(threads, [job |-> j, pc |-> "new", cancel |-> FALSE,
                                             cancel_running |-> FALSE, terminal |-> "none",
                                             code |-> "0",
                                             key_ok |-> (payload \in {"ok", "ok_embed"}),
                                             stage_error |-> FALSE,
                                             embed_pack |-> (payload = "ok_embed"),
                                             embedded |-> FALSE])
              /\ jobs' = [jobs EXCEPT ![j] = Len(threads) + 1]
              /\ UNCHANGED events
    /\ UNCHANGED <<cfgVars, cancelVars, prodVars, fqVars, workVars, pqVars, consVars,
                   packVars, m_pc, main_events, restVars, auxVars>>

\* cancel_job, lines 188-195.
CancelJob ==
    /\ ncmd < MaxCommands
    /\ ncmd' = ncmd + 1
    /\ \E j \in JobIds :
         IF jobs[j] = 0
         THEN /\ events' = events \o <<Emit(j, "error", MsgNotFound), Emit(j, "exit", "1")>>
              /\ UNCHANGED threads
         ELSE /\ threads' = [threads EXCEPT
                               ![jobs[j]].cancel = TRUE,
                               ![jobs[j]].cancel_running =
                                   @ \/ threads[jobs[j]].pc \in {"new", "call"}]
              /\ UNCHANGED events
    /\ UNCHANGED jobs
    /\ UNCHANGED <<cfgVars, cancelVars, prodVars, fqVars, workVars, pqVars, consVars,
                   packVars, m_pc, main_events, restVars, auxVars>>

\* runner, lines 131-140: `started`.
RunnerStarted ==
    /\ \E t \in 1 .. Len(threads) :
         /\ threads[t].pc = "new"
         /\ events' = Append(events, Emit(threads[t].job, "started", ""))
         /\ threads' = [threads EXCEPT ![t].pc = "call"]
    /\ UNCHANGED <<jobs, ncmd>>
    /\ UNCHANGED <<cfgVars, cancelVars, prodVars, fqVars, workVars, pqVars, consVars,
                   packVars, m_pc, main_events, restVars, auxVars>>

\* What run_anonymization ends with: ensure_key raises on an unsound key; the
\* call of run_pipeline raises TypeError when it does not bind; a run that binds
\* returns or raises, and ends with CancelledError only when the cancel event is
\* set and _safe_callback lets the bridge's signal through.
RunOutcomes(t) ==
    IF ~t.key_ok THEN {"error"}
    ELSE IF ~CallBinds(RunPipelineKwargs, RunPipelineParams) THEN {"error"}
    ELSE {"completed", "error"}
         \cup (IF t.cancel /\ SafeCallback(StatusCallback(t.cancel)) = "propagated"
               THEN {"cancelled"} ELSE {})

\* The functions on a job's path (runner, run_anonymization, run_pipeline and the
\* three stages) that call embed_pack_into_mp4: none does; mp4_packager is not
\* imported by any of their modules.
EmbedCallers == {}
\* The pack was embedded into the reported file when the job reports completion.
Embedded(t, out) == t.embed_pack /\ out = "completed" /\ EmbedCallers # {}

\* The exception came out of a run_pipeline call that was bound and entered.
PipelineRaised(t, out) ==
    t.key_ok /\ CallBinds(RunPipelineKwargs, RunPipelineParams) /\ out = "error"

\* runner, lines 147-177: run_anonymization and the job's terminal event.
RunnerCall ==
    /\ \E t \in 1 .. Len(threads) :
         /\ threads[t].pc = "call"
         /\ \E out \in RunOutcomes(threads[t]) :
              /\ events' = Append(events, Emit(threads[t].job, out,
                                                IF out = "error" THEN MsgException ELSE ""))
              /\ threads' = [threads EXCEPT ![t].pc = "exit",
                                            ![t].terminal = out,
                                            ![t].code = IF out = "error" THEN "1" ELSE "0",
                                            ![t].stage_error = PipelineRaised(threads[t], out),
                                            ![t].embedded = Embedded(threads[t], out)]
    /\ UNCHANGED <<jobs, ncmd>>
    /\ UNCHANGED <<cfgVars, cancelVars, prodVars, fqVars, workVars, pqVars, consVars,
                   packVars, m_pc, main_events, restVars, auxVars>>

\* runner, line 179: `exit` with the exit code.
RunnerExit ==
    /\ \E t \in 1 .. Len(threads) :
         /\ threads[t].pc = "exit"
         /\ events' = Append(events, Emit(threads[t].job, "exit", threads[t].code))
         /\ threads' = [threads EXCEPT ![t].pc = "pop"]
    /\ UNCHANGED <<jobs, ncmd>>
    /\ UNCHANGED <<cfgVars, cancelVars, prodVars, fqVars, workVars, pqVars, consVars,
                   packVars, m_pc, main_events, restVars, auxVars>>

\* runner, lines 180-181: self._jobs.pop(job_id, None) under the lock.
RunnerPop ==
    /\ \E t \in 1 .. Len(threads) :
         /\ threads[t].pc = "pop"
         /\ jobs' = [jobs EXCEPT ![threads[t].job] = 0]
         /\ threads' = [threads EXCEPT ![t].pc = "returned"]
    /\ UNCHANGED <<events, ncmd>>
    /\ UNCHANGED <<cfgVars, cancelVars, prodVars, fqVars, workVars, pqVars, consVars,
                   packVars, m_pc, main_events, restVars, auxVars>>

\* The thread ends after runner has returned.
ThreadEnds ==
    /\ \E t \in 1 .. Len(threads) :
         /\ threads[t].pc = "returned"
         /\ threads' = [threads EXCEPT ![t].pc = "dead"]
    /\ UNCHANGED <<jobs, events, ncmd>>
    /\ UNCHANGED <<cfgVars, cancelVars, prodVars, fqVars, workVars, pqVars, consVars,
                   packVars, m_pc, main_events, restVars, auxVars>>

NextService ==
    \/ StartJob \/ CancelJob
    \/ RunnerStarted \/ RunnerCall \/ RunnerExit \/ RunnerPop \/ ThreadEnds

\* The supervisor after AnonymizeService(): no job, no thread, nothing emitted.
IdlePipeline ==
    /\ width = 1 /\ height = 1 /\ nframes = 0 /\ coords = {0, 2}
    /\ manual_rois = <<>> /\ enable_detection = TRUE
    /\ target_classes = [given |-> FALSE, classes |-> {}]
    /\ encryption_key = GoodKey /\ hmac_key = HmacKey
    /\ callback_raises = "none"
    /\ InitThreads
InitSupervisor == IdlePipeline /\ InitService /\ IdleAux

SpecService == InitSupervisor /\ [][NextService]_vars

\* ---------------------------------------------------------- specification
Init == InitPipeline
Next ==
    \/ ProducerOpen \/ ProducerPut \/ ProducerBreak \/ ProducerSentinel
    \/ WorkerGet \/ WorkerTrack \/ WorkerDetect \/ WorkerPut \/ WorkerSentinel
    \/ ConsumerOpen \/ ConsumerGet
    \/ MainProbe \/ MainJoinProducer \/ MainJoinFrameQueue \/ MainJoinProcessedQueue
    \/ MainJoinWorker \/ MainJoinConsumer \/ MainFinalizing \/ MainFinalize \/ MainFinalized
    \/ Cancel
    \/ RestoreLoad \/ RestoreOpen \/ RestoreFrame

Spec == Init /\ [][Next]_vars

NextFrame ==
    \/ WorkerGet \/ WorkerTrack \/ WorkerDetect \/ WorkerPut \/ WorkerSentinel
    \/ ConsumerGet
    \/ MainJoinFrameQueue \/ MainJoinProcessedQueue \/ MainJoinWorker
    \/ MainJoinConsumer \/ MainFinalizing \/ MainFinalize \/ MainFinalized
    \/ RestoreLoad \/ RestoreOpen \/ RestoreFrame

SpecFrame == InitFrame /\ [][NextFrame]_vars

\* ------------------------------------------------------------- acquisitions
\* The decoder capture of producer is open from line 34 to cap.release() in the
\* finally of line 47, which comes before the sentinels are put.
CaptureOpen == p_pc = "read"
\* The encoder of consumer is open from line 304 to writer.release() in the
\* finally of line 333, reached when the loop is left by break or by an exception.
EncoderOpen == c_pc = "get"
\* The DataPackWriter is created at line 380 and closed at line 433, in the
\* finally around finalize.
PackWriterOpen ==
    m_pc \in {"join_producer", "join_fq", "join_pq", "join_worker", "join_consumer",
              "finalizing", "finalize"}

\* The file at the final output path: run_pipeline hands output_path itself to
\* consumer (lines 375, 407), which opens the encoder on it (line 304), so every
\* frame written is written there; nothing is written elsewhere and renamed.
OutputPathFile == video_out

\* ------------------------------------------------------ the threads, scheduled
\* Each of the four threads of a run (lines 382-426) gets the processor again and
\* again: a thread that can take a step is not passed over forever.
ProducerThread == ProducerOpen \/ ProducerPut \/ ProducerBreak \/ ProducerSentinel
WorkerThread == WorkerGet \/ WorkerTrack \/ WorkerDetect \/ WorkerPut \/ WorkerSentinel
ConsumerThread == ConsumerOpen \/ ConsumerGet
MainThread ==
    \/ MainProbe \/ MainJoinProducer \/ MainJoinFrameQueue \/ MainJoinProcessedQueue
    \/ MainJoinWorker \/ MainJoinConsumer \/ MainFinalizing \/ MainFinalize \/ MainFinalized
NextFair == ProducerThread \/ WorkerThread \/ ConsumerThread \/ MainThread \/ Cancel
SpecFair ==
    /\ Init /\ [][NextFair]_vars
    /\ WF_vars(ProducerThread) /\ WF_vars(WorkerThread)
    /\ WF_vars(ConsumerThread) /\ WF_vars(MainThread)

\* ------------------------------------------------ a video longer than the queues
\* A video long enough to fill both queues at once, with no region to find; the
\* probe is done and the capture and the encoder are open.
LongVideo == 2 * QueueMaxsize + 1
InitQueue ==
    /\ width = 1 /\ height = 1 /\ nframes = LongVideo /\ coords = {0, 2}
    /\ manual_rois = <<>> /\ enable_detection = FALSE
    /\ target_classes = [given |-> FALSE, classes |-> {}]
    /\ encryption_key = GoodKey /\ hmac_key = HmacKey
    /\ callback_raises = "none"
    /\ cancel_flag = FALSE /\ cancel_logged = FALSE /\ callback_fatal = FALSE
    /\ p_pc = "read" /\ frame_index = 0
    /\ frame_queue = <<>> /\ fq_unfinished = 0
    /\ w_pc = "get" /\ w_index = 0 /\ w_frame = BlankFrame /\ processed_frame = BlankFrame
    /\ tracker_entries = <<>> /\ trackers_initialized = FALSE
    /\ w_k = 1 /\ active_trackers = <<>>
    /\ manual_metadata = <<>> /\ detection_metadata = <<>>
    /\ w_nboxes = 0 /\ det_seen = [called |-> FALSE, frame |-> BlankFrame]
    /\ w_clamped = FALSE /\ w_skipped = {}
    /\ processed_queue = <<>> /\ pq_unfinished = 0
    /\ c_pc = "get" /\ processed_count = 0 /\ video_out = <<>>
    /\ progress_events = <<>>
    /\ pack_entries = <<>> /\ pack_finalized = FALSE /\ pack_key = HmacKey
    /\ finalize_calls = 0
    /\ m_pc = "join_producer" /\ main_events = <<"metadata">>
    /\ r_pc = "idle" /\ r_key = GoodKey /\ r_verified = "not yet" /\ r_cap_opened = FALSE
    /\ r_writer_created = FALSE /\ r_index = 0 /\ r_out = <<>> /\ r_events = <<>>
    /\ InitService /\ IdleAux

NextQueue ==
    \/ ProducerPut \/ ProducerBreak \/ ProducerSentinel
    \/ WorkerGet \/ WorkerPut \/ WorkerSentinel
    \/ ConsumerGet
    \/ MainJoinProducer \/ MainJoinFrameQueue \/ MainJoinProcessedQueue
    \/ MainJoinWorker \/ MainJoinConsumer \/ MainFinalizing \/ MainFinalize \/ MainFinalized

SpecQueue == InitQueue /\ [][NextQueue]_vars

\* ------------------------------------------------- mp4_packager as a program
\* Well-formed top-level boxes: size | type | body, size 1 | type | largesize | body,
\* size | "uuid" | uuid | body, and the last box of a file with size 0.
FreeBox(body) == PackU32(Big(8 + Len(body))) \o TypeFree \o body
LargeBox(body) == PackU32(Big(1)) \o TypeFree \o PackU64(16 + Len(body)) \o body
UuidBox(u, body) == PackU32(Big(24 + Len(body))) \o TypeUuid \o u \o body
ToEofBox(body) == PackU32(Big(0)) \o TypeFree \o body
\* A box whose body holds a uuid box with the fixed UUID: a container, and a
\* uuid box of another UUID.
NestedBoxes ==
    {FreeBox(UuidBox(DEFAULT_PACK_UUID, <<8>>)),
     UuidBox(OtherUuid, UuidBox(DEFAULT_PACK_UUID, <<8>>))}
WellFormedBoxes ==
    {FreeBox(<<>>), FreeBox(<<1, 2, 3, 4>>), LargeBox(<<5, 6>>), UuidBox(OtherUuid, <<9>>)}
    \cup NestedBoxes
ToEofBoxes == {ToEofBox(<<>>), ToEofBox(<<7, 7>>)}
RECURSIVE BoxLists(_)
BoxLists(n) ==
    IF n = 0 THEN {<<>>}
    ELSE BoxLists(n - 1) \cup {Append(v, b) : v \in BoxLists(n - 1), b \in WellFormedBoxes}
\* Valid MP4 files without a top-level pack box, as lists of top-level boxes: up
\* to MaxBoxes boxes, the last one possibly running to the end of the file.
ValidBoxLists ==
    BoxLists(MaxBoxes)
    \cup {Append(v, b) : v \in BoxLists(MaxBoxes - 1), b \in ToEofBoxes}
RECURSIVE Flatten(_)
Flatten(boxes) ==
    IF boxes = <<>> THEN <<>> ELSE boxes[1] \o Flatten(Tail(boxes))
BoxSeqs(n) == {Flatten(l) : l \in BoxLists(n)}
ValidVideos == {Flatten(l) : l \in ValidBoxLists}
\* Boxes that declare less than their header: a 32-bit size of 2..7, a largesize
\* below 16, a uuid box of 8..23 bytes.
ShortBoxes ==
    {PackU32(Big(k)) \o TypeFree : k \in 2 .. 7}
    \cup {PackU32(Big(1)) \o TypeFree \o PackU64(k) : k \in 0 .. 15}
    \cup {PackU32(Big(k)) \o TypeUuid \o SubSeq(OtherUuid, 1, k - 8) : k \in 8 .. 23}
MalformedVideos ==
    {v \o m \o t : v \in BoxSeqs(1), m \in ShortBoxes, t \in {<<>>, LargeBox(<<5, 6>>)}}
\* Files cut off anywhere: the proper prefixes of the files of two boxes, which
\* end inside a header, a largesize, a UUID or a body.
TruncatedVideos ==
    UNION {{SubSeq(f, 1, n) : n \in 1 .. Min(MaxTruncated, Len(f) - 1)} :
           f \in {v \o b : v \in BoxSeqs(1), b \in WellFormedBoxes \cup ToEofBoxes}}
    \ BoxSeqs(MaxBoxes)
\* Packs: the bytes 1 .. n for n up to MaxPayload, and lengths around 2^32 - 24.
RECURSIVE Counting(_)
Counting(n) == IF n = 0 THEN <<>> ELSE Append(Counting(n - 1), n)
SmallPacks == {PayloadOf(Counting(n)) : n \in 0 .. MaxPayload}
HugePacks == {[len |-> <<Limb - 1, Limb - k>>, bytes |-> <<>>] : k \in 23 .. 25}
PackFile(p) == [exists |-> TRUE, len |-> p.len, bytes |-> p.bytes]
NoPackFile == [exists |-> FALSE, len |-> Big(0), bytes |-> <<>>]

InitMp4 ==
    /\ IdlePipeline /\ InitService /\ IdleStdout /\ IdleResize /\ IdleKeys
    /\ \/ mp_boxes \in ValidBoxLists /\ mp_input = Flatten(mp_boxes) /\ mp_kind = "valid"
          /\ mp_pack \in {PackFile(p) : p \in SmallPacks \cup HugePacks} \cup {NoPackFile}
       \/ mp_input \in MalformedVideos /\ mp_kind = "malformed" /\ mp_boxes = <<>>
          /\ mp_pack = PackFile(PayloadOf(<<1>>))
       \/ mp_input \in TruncatedVideos /\ mp_kind = "truncated" /\ mp_boxes = <<>>
          /\ mp_pack = PackFile(PayloadOf(<<1>>))
    /\ mp_video \in {FileOf(mp_input)} \cup (IF mp_input = <<>> THEN {NoFile} ELSE {})
    /\ mp_output = NoFile
    /\ mp_outarg \in BOOLEAN
    /\ mp_pc = "start"
    /\ mp_embed = ExtractFails("none", "") /\ mp_extract = ExtractFails("none", "")
    /\ mp_visited = <<>> /\ mp_second = NoFile

pipeVars == <<cfgVars, cancelVars, prodVars, fqVars, workVars, pqVars, consVars,
              packVars, m_pc, main_events, restVars, svcVars>>

\* embed_pack_into_mp4, lines 41-63.
Mp4Embed ==
    /\ mp_pc = "start"
    /\ mp_pc' = "embedded"
    /\ IF ~mp_video.exists
       THEN mp_embed' = ExtractFails("FileNotFoundError", MsgNoVideo)
            /\ UNCHANGED <<mp_video, mp_output>>
       ELSE IF ~mp_pack.exists
       THEN mp_embed' = ExtractFails("FileNotFoundError", MsgNoDataPack)
            /\ UNCHANGED <<mp_video, mp_output>>
       ELSE IF TooLarge(BoxSize(mp_pack.len))
       THEN mp_embed' = ExtractFails("ValueError", MsgTooLarge)
            /\ UNCHANGED <<mp_video, mp_output>>
       ELSE /\ mp_embed' = Extracted(<<>>)
            /\ IF mp_outarg
               THEN mp_output' = AppendBox(mp_video, mp_pack, DEFAULT_PACK_UUID)
                    /\ UNCHANGED mp_video
               ELSE mp_video' = AppendBox(mp_video, mp_pack, DEFAULT_PACK_UUID)
                    /\ UNCHANGED mp_output
    /\ UNCHANGED <<mp_pack, mp_outarg, mp_extract, mp_input, mp_kind, mp_boxes, mp_visited,
                   mp_second>>
    /\ UNCHANGED <<pipeVars, ioVars, rsVars, kyVars>>

\* The file embed returned (the output path when given, else the video), or the
\* video itself when nothing was embedded.
Mp4Target == IF mp_outarg /\ mp_embed.status = "ok" THEN mp_output ELSE mp_video

\* extract_pack_from_mp4 on a file whose bytes are all enumerated.
Mp4Extract ==
    /\ mp_pc \in {"start", "embedded", "embedded_twice"}
    /\ Mp4Target.more = Big(0)
    /\ mp_pc' = "extracted"
    /\ mp_extract' = ExtractPackFromMp4(Mp4Target, DEFAULT_PACK_UUID)
    /\ mp_visited' = VisitedOffsets(Mp4Target, DEFAULT_PACK_UUID)
    /\ UNCHANGED <<mp_video, mp_pack, mp_output, mp_outarg, mp_embed, mp_input, mp_kind,
                   mp_boxes, mp_second>>
    /\ UNCHANGED <<pipeVars, ioVars, rsVars, kyVars>>

\* embed_pack_into_mp4 once more, in place (no output_path), on the file the
\* first embed returned, with a pack small enough for a box.
Mp4EmbedSecond ==
    /\ mp_pc = "embedded" /\ mp_embed.status = "ok"
    /\ Mp4Target.exists /\ Mp4Target.more = Big(0)
    /\ mp_pc' = "embedded_twice"
    /\ \E p \in SmallPacks :
         /\ ~TooLarge(BoxSize(p.len))
         /\ mp_second' = FileOf(p.bytes)
         /\ IF mp_outarg
            THEN mp_output' = AppendBox(mp_output, p, DEFAULT_PACK_UUID) /\ UNCHANGED mp_video
            ELSE mp_video' = AppendBox(mp_video, p, DEFAULT_PACK_UUID) /\ UNCHANGED mp_output
    /\ UNCHANGED <<mp_pack, mp_outarg, mp_embed, mp_extract, mp_input, mp_kind, mp_boxes,
                   mp_visited>>
    /\ UNCHANGED <<pipeVars, ioVars, rsVars, kyVars>>

NextMp4 == Mp4Embed \/ Mp4EmbedSecond \/ Mp4Extract
SpecMp4 == InitMp4 /\ [][NextMp4]_vars

\* ------------------------------------------------------- JSON events on stdout
\* The threads that emit events. The main thread does (service: the answers to
\* rejected commands; CLI: `log`, `error`, `completed`), and in the service the
\* job's runner thread (`started`, `error`, `exit`). The worker and the consumer
\* emit through the status callback, once run_pipeline is entered.
PipelineEmitters ==
    IF CallBinds(RunPipelineKwargs, RunPipelineParams) THEN {"worker", "consumer"} ELSE {}
Emitters(prog) ==
    (IF prog = "service" THEN {"main", "runner"} ELSE {"main"}) \cup PipelineEmitters

\* A chunk is what one write call puts on stdout: a whole line (text and "\n"),
\* the text of a line, or the "\n" that ends it. n numbers the thread's events.
Chunk(th, n, part) == [th |-> th, n |-> n, part |-> part]

InitStdout ==
    /\ IdlePipeline /\ InitService /\ IdleMp4 /\ IdleResize /\ IdleKeys
    /\ program \in {"service", "cli"}
    /\ stdout_lock = "free" /\ stdout = <<>>
    /\ e_pc = [th \in EmitThreads |-> "idle"]
    /\ e_left \in [EmitThreads -> 0 .. MaxEmits]
    /\ \A th \in EmitThreads \ Emitters(program) : e_left[th] = 0

\* _emit, line 34: `with _stdout_lock` is entered when the lock is free.
EmitLock ==
    /\ program = "service"
    /\ \E th \in EmitThreads :
         /\ e_pc[th] = "idle" /\ e_left[th] > 0
         /\ stdout_lock = "free"
         /\ stdout_lock' = th
         /\ e_pc' = [e_pc EXCEPT ![th] = "locked"]
    /\ UNCHANGED <<program, stdout, e_left>>
    /\ UNCHANGED <<pipeVars, mpVars, rsVars, kyVars>>

\* _emit, lines 35-36: one write of json.dumps(payload) + "\n", and the flush.
EmitWrite ==
    /\ program = "service"
    /\ \E th \in EmitThreads :
         /\ e_pc[th] = "locked"
         /\ stdout' = Append(stdout, Chunk(th, e_left[th], "line"))
         /\ e_pc' = [e_pc EXCEPT ![th] = "written"]
    /\ UNCHANGED <<program, stdout_lock, e_left>>
    /\ UNCHANGED <<pipeVars, mpVars, rsVars, kyVars>>

\* _emit: the with block is left and the lock released.
EmitUnlock ==
    /\ program = "service"
    /\ \E th \in EmitThreads :
         /\ e_pc[th] = "written"
         /\ stdout_lock' = "free"
         /\ e_pc' = [e_pc EXCEPT ![th] = "idle"]
         /\ e_left' = [e_left EXCEPT ![th] = @ - 1]
    /\ UNCHANGED <<program, stdout>>
    /\ UNCHANGED <<pipeVars, mpVars, rsVars, kyVars>>

\* main.emit_event, line 259: print(json.dumps(payload), flush=True) writes the
\* text to sys.stdout ...
PrintText ==
    /\ program = "cli"
    /\ \E th \in EmitThreads :
         /\ e_pc[th] = "idle" /\ e_left[th] > 0
         /\ stdout' = Append(stdout, Chunk(th, e_left[th], "text"))
         /\ e_pc' = [e_pc EXCEPT ![th] = "text"]
    /\ UNCHANGED <<program, stdout_lock, e_left>>
    /\ UNCHANGED <<pipeVars, mpVars, rsVars, kyVars>>

\* ... and then, in a second write, the end "\n"; then the flush.
PrintEnd ==
    /\ program = "cli"
    /\ \E th \in EmitThreads :
         /\ e_pc[th] = "text"
         /\ stdout' = Append(stdout, Chunk(th, e_left[th], "end"))
         /\ e_pc' = [e_pc EXCEPT ![th] = "idle"]
         /\ e_left' = [e_left EXCEPT ![th] = @ - 1]
    /\ UNCHANGED <<program, stdout_lock>>
    /\ UNCHANGED <<pipeVars, mpVars, rsVars, kyVars>>

NextStdout == EmitLock \/ EmitWrite \/ EmitUnlock \/ PrintText \/ PrintEnd
SpecStdout == InitStdout /\ [][NextStdout]_vars

\* ------------------------------------------- restore on a video of another size
\* The boxes a pack of size <<w, h>> can hold: the worker stores clamped boxes
\* that are not degenerate.
StoredBoxes(w, h) ==
    {<<x1, y1, x2, y2>> : x1 \in 0 .. w - 1, y1 \in 0 .. h - 1, x2 \in 1 .. w, y2 \in 1 .. h}
    \ {b \in (0 .. w) \X (0 .. h) \X (0 .. w) \X (0 .. h) : Degenerate(b)}
\* The block the worker stores for box b of frame 0 of a w by h video.
StoredBlock(b, w, h) ==
    [label |-> "person", bbox |-> b,
     encrypted |-> EncryptRoi(Roi(SourceFrame(0, w, h), b, w, h), GoodKey),
     source |-> "detection"]

\* A one-frame anonymized video whose size differs from (or equals) the pack's,
\* with one or two blocks stored for its frame; every pixel of it is obfuscated.
InitResize ==
    /\ IdlePipeline /\ InitService /\ IdleMp4 /\ IdleStdout /\ IdleKeys
    /\ pack_size = <<MaxDim, MaxDim>>
    /\ video_size \in (1 .. MaxDim + 1) \X (1 .. MaxDim + 1)
    /\ \E b1 \in StoredBoxes(MaxDim, MaxDim) :
         \/ frame_blocks = <<StoredBlock(b1, MaxDim, MaxDim)>>
         \/ frame_blocks = <<StoredBlock(<<0, 0, 1, 1>>, MaxDim, MaxDim),
                             StoredBlock(b1, MaxDim, MaxDim)>>
    /\ rs_frame = [p \in Pix(video_size[1], video_size[2]) |-> OBF]
    /\ rs_warned = FALSE /\ rs_pc = "start" /\ rs_raised = "none"

\* Lines 130-173: the video is opened and reports its size; when the pack's size
\* is set and differs, the warning is logged and the video's size is used.
ResizeOpen ==
    /\ rs_pc = "start"
    /\ rs_warned' = (pack_size # <<0, 0>> /\ pack_size # video_size)
    /\ rs_pc' = "loop"
    /\ UNCHANGED <<pack_size, video_size, frame_blocks, rs_frame, rs_raised>>
    /\ UNCHANGED <<pipeVars, mpVars, ioVars, kyVars>>

\* Lines 178-204: the frame is read, its blocks are restored, and it is written;
\* an exception of decrypt_roi leaves the loop and main (lines 230-233).
ResizeFrame ==
    /\ rs_pc = "loop"
    /\ LET res == RestoreBlocks(rs_frame, frame_blocks, 1, GoodKey,
                                video_size[1], video_size[2])
       IN IF res.status = "ok"
          THEN rs_frame' = res.frame /\ rs_pc' = "written" /\ UNCHANGED rs_raised
          ELSE rs_raised' = res.status /\ rs_pc' = "error" /\ UNCHANGED rs_frame
    /\ UNCHANGED <<pack_size, video_size, frame_blocks, rs_warned>>
    /\ UNCHANGED <<pipeVars, mpVars, ioVars, kyVars>>

\* Lines 180-181, 215-229: the next read fails, the handles are released and
\* `completed` is reported.
ResizeCompleted ==
    /\ rs_pc = "written"
    /\ rs_pc' = "completed"
    /\ UNCHANGED <<pack_size, video_size, frame_blocks, rs_frame, rs_warned, rs_raised>>
    /\ UNCHANGED <<pipeVars, mpVars, ioVars, kyVars>>

NextResize == ResizeOpen \/ ResizeFrame \/ ResizeCompleted
SpecResize == InitResize /\ [][NextResize]_vars

\* ------------------------------------------------ keys on the command lines
KeyOk(n) == [status |-> "ok", nbytes |-> n]
KeyRejected == [status |-> "ValueError", nbytes |-> 0]

\* anonymize_video.ensure_key, lines 107-119, for a key that is given.
EnsureKey(arg) ==
    IF ~arg.hex THEN KeyRejected
    ELSE IF arg.nbytes \notin ValidKeyLens THEN KeyRejected
    ELSE KeyOk(arg.nbytes)

\* anonymize_video.ensure_hmac_key, lines 122-133: a given key must decode and
\* must not be empty; an omitted one is the AES key.
EnsureHmacKey(arg, fallback) ==
    IF arg.given
    THEN IF ~arg.hex THEN KeyRejected
         ELSE IF arg.nbytes = 0 THEN KeyRejected
         ELSE KeyOk(arg.nbytes)
    ELSE fallback

\* restore_video.decode_key, lines 60-68.
DecodeKey(arg) ==
    IF ~arg.hex THEN KeyRejected
    ELSE IF ~DecodeKeyOk([len |-> arg.nbytes]) THEN KeyRejected
    ELSE KeyOk(arg.nbytes)

\* The arguments: --key is a sound AES key; --hmac-key is omitted, or a string
\* that is not hex, or hex for 0 .. MaxKeyBytes bytes.
InitKeys ==
    /\ IdlePipeline /\ InitService /\ IdleMp4 /\ IdleStdout /\ IdleResize
    /\ key_arg \in {[given |-> TRUE, hex |-> TRUE, nbytes |-> n] : n \in ValidKeyLens}
    /\ hmac_key_arg \in
         {NoKeyArg, [given |-> TRUE, hex |-> FALSE, nbytes |-> 0]}
         \cup {[given |-> TRUE, hex |-> TRUE, nbytes |-> n] : n \in 0 .. MaxKeyBytes}
    /\ anonymize_hmac = KeyPending /\ restore_hmac = KeyPending

\* run_anonymization, lines 191-192.
AnonymizeKeys ==
    /\ anonymize_hmac = KeyPending /\ key_arg.given
    /\ anonymize_hmac' = EnsureHmacKey(hmac_key_arg, EnsureKey(key_arg))
    /\ UNCHANGED <<key_arg, hmac_key_arg, restore_hmac>>
    /\ UNCHANGED <<pipeVars, mpVars, ioVars, rsVars>>

\* restore_video.main, lines 125-126, with the same two arguments.
RestoreKeys ==
    /\ restore_hmac = KeyPending /\ key_arg.given
    /\ restore_hmac' = IF DecodeKey(key_arg).status # "ok" THEN KeyRejected
                       ELSE IF hmac_key_arg.given THEN DecodeKey(hmac_key_arg)
                       ELSE DecodeKey(key_arg)
    /\ UNCHANGED <<key_arg, hmac_key_arg, anonymize_hmac>>
    /\ UNCHANGED <<pipeVars, mpVars, ioVars, rsVars>>

NextKeys == AnonymizeKeys \/ RestoreKeys
SpecKeys == InitKeys /\ [][NextKeys]_vars

\* ----------------------------------------------------------------- claims
Range(q) == {q[k] : k \in 1 .. Len(q)}
NoStageError == p_pc # "raised" /\ w_pc # "raised" /\ c_pc # "raised"

\* Every region record the pipeline holds, with the index of its frame: in the
\* worker's lists, in the processed queue and in the pack.
Emitted ==
    {[frame_index |-> w_index, region |-> r] : r \in Range(manual_metadata \o detection_metadata)}
    \cup UNION {{[frame_index |-> it.frame_index, region |-> r] : r \in Range(it.metadata)} :
                it \in {i \in Range(processed_queue) : i # SENTINEL}}
    \cup UNION {{[frame_index |-> e.frame_index, region |-> r] : r \in Range(e.regions)} :
                e \in Range(pack_entries)}

Overlap(a, b) == a[1] < b[3] /\ b[1] < a[3] /\ a[2] < b[4] /\ b[2] < a[4]

\* C1 (I1): the frame indices handed to the video encoder are 0, 1, 2, ... in
\* that order at every moment, and once the consumer has seen its end-of-stream
\* marker in a run with no stage error, all nframes frames were written.
C1_FrameOrder ==
    /\ \A k \in 1 .. Len(video_out) : video_out[k].frame_index = k - 1
    /\ (c_pc = "done" /\ NoStageError) => Len(video_out) = nframes

C1_Witness == c_pc = "done" /\ NoStageError /\ Len(video_out) = MaxFrames

\* C2 (I2): the frame_index arguments of successive write_frame_data calls are
\* strictly increasing.
C2_PackOrder ==
    \A k \in 1 .. Len(pack_entries) - 1 :
        pack_entries[k].frame_index < pack_entries[k + 1].frame_index

C2_Witness == Len(pack_entries) = MaxFrames /\ m_pc = "done"

\* C3 (round trip): every frame restore writes, under the AES key of the job,
\* holds at every stored bbox of that frame exactly the source frame's pixels,
\* also where stored boxes overlap.
C3_RoundTrip ==
    r_key.id = encryption_key.id =>
        \A k \in 1 .. Len(r_out) :
            \A r \in Range(FrameMapGet(pack_entries, k - 1, Len(pack_entries))) :
                \A p \in Pix(width, height) :
                    InBox(p, r.bbox) => r_out[k][p] = Source(k - 1)[p]

C3_Witness ==
    /\ r_key.id = encryption_key.id /\ Len(r_out) = 1
    /\ \E i, j \in 1 .. Len(FrameMapGet(pack_entries, 0, Len(pack_entries))) :
         LET rs == FrameMapGet(pack_entries, 0, Len(pack_entries)) IN
         /\ i < j /\ rs[i].bbox # rs[j].bbox /\ Overlap(rs[i].bbox, rs[j].bbox)
         /\ rs[j].bbox[3] - rs[j].bbox[1] # rs[j].bbox[4] - rs[j].bbox[2]

\* C4 (I3): every region the worker emits has 0 <= x1 < x2 <= width and
\* 0 <= y1 < y2 <= height, whatever box the tracker or the detector reported.
C4_BboxSound ==
    \A e \in Emitted :
        LET b == e.region.bbox IN
        /\ 0 <= b[1] /\ b[1] < b[3] /\ b[3] <= width
        /\ 0 <= b[2] /\ b[2] < b[4] /\ b[4] <= height

C4_Witness ==
    /\ w_clamped
    /\ \E e \in Range(pack_entries) :
         /\ \E r \in Range(e.regions) : r.source = "manual" /\ r.bbox # FullBox
         /\ \E r \in Range(e.regions) : r.source = "detection" /\ r.bbox # FullBox

\* C5: the plaintext sealed for a region is the source frame's pixels at its
\* bbox, whatever was obfuscated before it in the same frame, and the source
\* frame the worker holds is never written.
C5_SealedFromSource ==
    /\ w_pc \in {"track", "detect", "put"} => w_frame = Source(w_index)
    /\ \A e \in Emitted :
         e.region.encrypted.pt = Roi(Source(e.frame_index), e.region.bbox, width, height)

C5_Witness ==
    /\ w_pc = "put"
    /\ Len(manual_metadata) = 1 /\ Len(detection_metadata) = 1
    /\ Overlap(manual_metadata[1].bbox, detection_metadata[1].bbox)
    /\ manual_metadata[1].bbox # detection_metadata[1].bbox

\* C6: once the cancellation signal has been raised to the pipeline (the bridge
\* raised CancelledError in a callback after the cancel event was set), the
\* worker takes no further frame from the frame queue.
C6_CancelStopsWorker ==
    [][cancel_logged => ~(w_pc = "get" /\ w_pc' \in {"track", "detect", "put"})]_vars

\* C8: after the worker stage raised, the run does not hang: run_pipeline has
\* returned or raised, or some stage can still take a step.
C8_WorkerErrorEndsJob ==
    w_pc = "raised" => (m_pc \in {"done", "raised"} \/ ENABLED PipelineStep)

\* C10: when the pack's HMAC verification returned false, restore has failed
\* with the anonymized video not opened, no output writer created, no frame
\* written and no `completed` event.
C10_AuthFailedFatal ==
    r_verified = "false" =>
        /\ r_pc = "error"
        /\ ~r_cap_opened /\ ~r_writer_created
        /\ r_out = <<>>
        /\ "completed" \notin Range(r_events)

C10_Witness ==
    r_verified = "false" /\ r_pc = "error" /\ pack_entries # <<>> /\ Len(video_out) = MaxFrames

\* A thread that is still inside runner (its last statement removes the job
\* from _jobs).
InRunner(t) == t.pc \in {"new", "call", "exit", "pop"}

\* C7: a job whose cancel command was accepted while it was running ends with
\* the terminal event `cancelled` and exit code 0.
C7_CancelledJobEndsCancelled ==
    \A k \in 1 .. Len(threads) :
        (threads[k].cancel_running /\ threads[k].terminal # "none") =>
            (threads[k].terminal = "cancelled" /\ threads[k].code = "0")

\* C9: at every moment at most one job thread is inside runner; a start
\* received while a job runs is rejected and starts no thread.
C9_AtMostOneJob ==
    Cardinality({k \in 1 .. Len(threads) : InRunner(threads[k])}) <= 1

C9_Witness ==
    /\ Len(threads) = 2 /\ InRunner(threads[2])
    /\ \E e \in Range(events) : e.event = "error" /\ e.data = MsgRunning

\* C11 (MP4 round trip): after embed has appended pack p to a valid MP4 file,
\* extract on the file embed returned gives back exactly the bytes of p.
C11_EmbedExtractRoundTrip ==
    (mp_kind = "valid" /\ mp_embed.status = "ok" /\ mp_pc = "extracted") =>
        mp_extract = Extracted(mp_pack.bytes)

\* C12: extract on an existing file of well-formed boxes none of which is a uuid
\* box with the fixed UUID fails with the not-found error and returns no bytes.
C12_NotFoundWithoutBox ==
    (mp_kind = "valid" /\ mp_video.exists /\ mp_embed.status # "ok"
     /\ mp_pc = "extracted") =>
        mp_extract = ExtractFails("FileNotFoundError", MsgNoPack)

C12_Witness ==
    /\ mp_pc = "extracted" /\ mp_embed.status = "none"
    /\ mp_input = UuidBox(OtherUuid, <<9>>) \o UuidBox(OtherUuid, <<9>>)
    /\ mp_extract.status = "FileNotFoundError"

\* C13: extract on a file in which a box it scans declares less than its header
\* (32-bit size 2..7, largesize below 16, uuid box shorter than 24 bytes) fails
\* with one of the two malformed errors.
C13_MalformedBoxRejected ==
    (mp_kind = "malformed" /\ mp_embed.status = "none" /\ mp_pc = "extracted") =>
        (mp_extract.status = "ValueError" /\ mp_extract.error \in {MsgBoxSize, MsgUuidLength})

\* C14: with the video and the pack present, embed fails with the
\* payload-too-large error exactly when len(payload) >= 2^32 - 24, and then the
\* video file is as it was and nothing exists at the output path.
C14_PayloadTooLarge ==
    (mp_embed.status # "none" /\ mp_video.exists /\ mp_pack.exists) =>
        /\ (mp_embed.error = MsgTooLarge) <=>
               (mp_pack.len[1] >= Limb
                \/ (mp_pack.len[1] = Limb - 1 /\ mp_pack.len[2] >= Limb - 24))
        /\ (mp_embed.error = MsgTooLarge) =>
               (mp_video = FileOf(mp_input) /\ mp_output = NoFile)

C14_Witness ==
    /\ mp_embed.error = MsgTooLarge /\ mp_outarg /\ mp_input # <<>>
    /\ mp_pack.len = <<Limb - 1, Limb - 24>>

\* C15: each queue holds at most 32 items, sentinels included, and while a queue
\* is full the stage that is at a put into it stays where it is: the only change
\* of the queue is the downstream stage taking its head.
C15_QueuesBounded ==
    /\ [](Len(frame_queue) <= 32 /\ Len(processed_queue) <= 32)
    /\ [][/\ ((QueueFull(frame_queue)
               /\ (p_pc = "eos" \/ (p_pc = "read" /\ frame_index < nframes))) =>
                  (/\ p_pc' = p_pc /\ frame_index' = frame_index
                   /\ frame_queue' \in {frame_queue, Tail(frame_queue)}))
           /\ ((QueueFull(processed_queue) /\ w_pc \in {"put", "eos"}) =>
                  (/\ w_pc' = w_pc
                   /\ processed_queue' \in {processed_queue, Tail(processed_queue)}))]_vars

C15_Witness ==
    /\ QueueFull(frame_queue) /\ QueueFull(processed_queue)
    /\ w_pc = "put" /\ p_pc = "eos"

\* C16: finalize is called at most once, and exactly once in a run that returns;
\* when it is called the producer, the worker and the consumer have all ended and
\* `finalizing` was reported; no frame entry is written to the pack after it; and
\* `finalized` is reported only after finalize returned.
C16_FinalizeOnceAfterStages ==
    /\ [](/\ finalize_calls <= 1
          /\ (m_pc = "done" => finalize_calls = 1)
          /\ (finalize_calls > 0 =>
                 /\ p_pc \in {"done", "raised"}
                 /\ w_pc \in {"done", "raised"}
                 /\ c_pc \in {"done", "raised"}
                 /\ "finalizing" \in Range(main_events))
          /\ ("finalized" \in Range(main_events) =>
                 /\ finalize_calls = 1 /\ pack_finalized
                 /\ main_events = <<"metadata", "finalizing", "finalized">>))
    /\ [][(finalize_calls > 0 \/ finalize_calls' > 0) =>
              pack_entries' = pack_entries]_vars

C16_Witness ==
    /\ m_pc = "done" /\ finalize_calls = 1 /\ pack_finalized
    /\ main_events = <<"metadata", "finalizing", "finalized">>
    /\ Len(pack_entries) = MaxFrames /\ Len(video_out) = MaxFrames

\* C17: when the threads are scheduled fairly, every run in which the video opens
\* and no stage raises comes to its end: run_pipeline is past its last join and
\* has called finalize exactly once, the three stage threads have exited, both
\* queues are empty with nothing unfinished, and all frames were consumed.
StageRaised == ~NoStageError \/ m_pc = "raised_probe"
Terminated ==
    /\ m_pc \in {"done", "raised"} /\ finalize_calls = 1
    /\ (m_pc = "done" => pack_finalized)
    /\ p_pc = "done" /\ w_pc = "done" /\ c_pc = "done"
    /\ frame_queue = <<>> /\ fq_unfinished = 0
    /\ processed_queue = <<>> /\ pq_unfinished = 0
    /\ frame_index = nframes /\ processed_count = nframes /\ Len(video_out) = nframes
C17_Terminates == <>(StageRaised \/ Terminated)

C17_Witness == Terminated /\ nframes = MaxFrames /\ m_pc = "done" /\ cancel_flag

\* C18: a job started with a sound payload, never cancelled, whose pipeline raised
\* nothing, ends with `completed` and exit code 0, reported after its `started`;
\* and an `exit` with code 1 comes only after an `error` of the same job.
C18_ValidStartCompletes ==
    /\ \A t \in 1 .. Len(threads) :
         (/\ threads[t].key_ok /\ ~threads[t].cancel /\ ~threads[t].stage_error
          /\ threads[t].terminal # "none") =>
             /\ threads[t].terminal = "completed" /\ threads[t].code = "0"
             /\ \E i, k \in 1 .. Len(events) :
                  /\ i < k
                  /\ events[i] = Emit(threads[t].job, "started", "")
                  /\ events[k] = Emit(threads[t].job, "completed", "")
    /\ \A k \in 1 .. Len(events) :
         events[k].event = "exit" /\ events[k].data = "1" =>
             \E i \in 1 .. k - 1 :
                 events[i].event = "error" /\ events[i].job = events[k].job

\* C19: with a status callback that raises an exception other than the
\* cancellation signal on every event, no exception of the callback ever leaves
\* _safe_callback, so none ends run_pipeline, the worker or the consumer; and what
\* is written is what a silent callback gives: every frame in order once the
\* consumer has seen the end-of-stream marker, and a finalized pack at the end.
C19_CallbackErrorHarmless ==
    callback_raises # "none" =>
        /\ ~callback_fatal
        /\ (m_pc = "raised_probe" => main_events = <<>>)
        /\ \A k \in 1 .. Len(video_out) : video_out[k].frame_index = k - 1
        /\ ((c_pc = "done" /\ NoStageError) => Len(video_out) = nframes)
        /\ (m_pc = "done" =>
               /\ finalize_calls = 1 /\ pack_finalized
               /\ (NoStageError => Len(video_out) = nframes)
               /\ main_events = <<"metadata", "finalizing", "finalized">>)

C19_Witness ==
    /\ callback_raises = "OSError" /\ m_pc = "done"
    /\ Len(video_out) = MaxFrames /\ Len(pack_entries) = MaxFrames
    /\ enable_detection

\* C20: in the supervisor and in the CLI, every write to stdout that belongs to
\* an event line is made by a thread that holds the stdout mutex, and stdout is
\* a sequence of whole lines: the text of a line is followed at once by its own
\* line end.
WholeLines ==
    \A k \in 1 .. Len(stdout) :
        /\ stdout[k].part = "text" =>
               (k < Len(stdout) =>
                    stdout[k + 1] = Chunk(stdout[k].th, stdout[k].n, "end"))
        /\ stdout[k].part = "end" =>
               (k > 1 /\ stdout[k - 1] = Chunk(stdout[k].th, stdout[k].n, "text"))
C20_EventLineUnderMutex ==
    /\ [](program \in {"service", "cli"} => WholeLines)
    /\ [][stdout' # stdout =>
              (/\ stdout_lock # "free"
               /\ stdout_lock' = stdout_lock
               /\ stdout'[Len(stdout')].th = stdout_lock)]_vars

\* C21: every frame the consumer takes from the processed queue and handles
\* without an exception is written to the video encoder, and is written to the
\* pack, once, exactly when its region list is not empty; the pack changes in
\* no other way.
ConsumerTakes(item) ==
    /\ c_pc = "get" /\ processed_queue # <<>> /\ Head(processed_queue) = item
    /\ processed_queue' = Tail(processed_queue) /\ pq_unfinished' = pq_unfinished - 1
C21_PackedIffRegions ==
    /\ [][\A item \in Range(processed_queue) :
            (item # SENTINEL /\ ConsumerTakes(item) /\ c_pc' # "raised") =>
                /\ video_out' = Append(video_out, [frame_index |-> item.frame_index,
                                                   frame |-> item.frame])
                /\ pack_entries' =
                       IF item.metadata # <<>>
                       THEN Append(pack_entries, [frame_index |-> item.frame_index,
                                                  regions |-> item.metadata])
                       ELSE pack_entries]_vars
    /\ [][pack_entries' # pack_entries =>
            \E item \in Range(processed_queue) :
                item # SENTINEL /\ ConsumerTakes(item) /\ item.metadata # <<>>]_vars
    /\ [](\A e \in Range(pack_entries) : e.regions # <<>>)

C21_Witness ==
    /\ c_pc = "done" /\ NoStageError
    /\ Len(video_out) = MaxFrames /\ pack_entries # <<>>
    /\ Len(pack_entries) < Len(video_out)

\* C22: when detection is disabled or no class is sensitive, the detector is
\* never called and no region of source "detection" exists anywhere; when there
\* is no manual ROI either, no region exists at all, the pack stays without
\* entries, every frame is still written to the video and a run that returns has
\* finalized the pack.
C22_DetectionOff ==
    ~(enable_detection /\ sensitive_classes # {}) =>
        /\ ~det_seen.called /\ w_nboxes = 0
        /\ \A e \in Emitted : e.region.source # "detection"
        /\ manual_rois = <<>> =>
               /\ Emitted = {} /\ pack_entries = <<>>
               /\ \A k \in 1 .. Len(video_out) :
                      video_out[k] = [frame_index |-> k - 1, frame |-> Source(k - 1)]
               /\ ((c_pc = "done" /\ NoStageError) => Len(video_out) = nframes)
               /\ (m_pc = "done" => (pack_finalized /\ finalize_calls = 1))

C22_Witness ==
    /\ ~enable_detection /\ manual_rois = <<>>
    /\ m_pc = "done" /\ pack_finalized /\ pack_entries = <<>>
    /\ Len(video_out) = MaxFrames

\* C23: a job started with a sound payload that asks for embed_pack, never
\* cancelled and with no error from inside the pipeline, ends with `completed`,
\* and by then the pack has been embedded into the file it reports.
C23_EmbeddedBeforeCompleted ==
    \A t \in 1 .. Len(threads) :
        (/\ threads[t].embed_pack /\ threads[t].key_ok
         /\ ~threads[t].cancel /\ ~threads[t].stage_error
         /\ threads[t].terminal # "none") =>
            (threads[t].terminal = "completed" /\ threads[t].embedded)

\* C24: in every run, under fair scheduling, a decoder capture, a video encoder
\* and a data-pack writer that are open are each released or closed later on.
C24_ResourcesReleased ==
    /\ CaptureOpen ~> ~CaptureOpen
    /\ EncoderOpen ~> ~EncoderOpen
    /\ PackWriterOpen ~> ~PackWriterOpen

\* C25: while a cancelled job has not completed, the file at the final output
\* path holds no frame of the anonymized video.
C25_NoPartialAtFinalPath ==
    (cancel_flag /\ m_pc # "done") => OutputPathFile = <<>>

\* C26: when the video's size differs from the pack's, restore logs the
\* warning and does not fail: once the frame is written, the last stored block
\* whose box is not degenerate after clamping to the video fills its clamped box
\* with its decrypted pixels.
C26_ResizedRestoreCompletes ==
    (pack_size # video_size /\ rs_pc \notin {"idle", "start"}) =>
        /\ rs_warned
        /\ rs_pc # "error"
        /\ rs_pc \in {"written", "completed"} =>
               LET blk == frame_blocks[Len(frame_blocks)]
                   b == ClampStored(blk.bbox, video_size[1], video_size[2])
               IN ~Degenerate(b) =>
                      Roi(rs_frame, b, video_size[1], video_size[2]) = blk.encrypted.pt

\* The offsets of the top-level boxes of a file made of the boxes `boxes`.
RECURSIVE TopLevelOffsets(_, _)
TopLevelOffsets(boxes, at) ==
    IF boxes = <<>> THEN <<>>
    ELSE <<at>> \o TopLevelOffsets(Tail(boxes), at + Len(boxes[1]))

\* C27: on a file of well-formed boxes, extract reads a box header at the
\* offset of every top-level box (32-bit size, largesize, or to the end of the
\* file when the size is 0) and nowhere else; a uuid box with the fixed UUID
\* that lies inside the body of another box is never returned.
C27_TopLevelOnly ==
    (mp_kind = "valid" /\ mp_video.exists /\ mp_embed.status # "ok"
     /\ mp_pc = "extracted") =>
        /\ mp_visited = TopLevelOffsets(mp_boxes, 0)
        /\ mp_extract.status # "ok"

C27_Witness ==
    /\ mp_pc = "extracted" /\ mp_embed.status = "none"
    /\ mp_boxes = <<FreeBox(UuidBox(DEFAULT_PACK_UUID, <<8>>)), LargeBox(<<5, 6>>)>>
    /\ mp_visited = <<0, 33>>
    /\ mp_extract = ExtractFails("FileNotFoundError", MsgNoPack)

\* The positions of a queue that hold the end-of-stream marker.
Markers(q) == {i \in 1 .. Len(q) : q[i] = SENTINEL}
\* A step that puts on a queue, and one that puts the marker (one worker).
PutsOn(q, q2) == Len(q2) > Len(q)
PutsMarker(q, q2) == PutsOn(q, q2) /\ Markers(q2) # {}

\* C28: a producer that opened its capture puts its one marker on the frame
\* queue when it stops reading, at whatever frame the decoding stops, and puts
\* nothing afterwards; a worker that took the marker puts its one marker on the
\* processed queue and puts nothing afterwards; on either queue the marker is
\* the last item, so that no frame and no result is ever behind it.
C28_EndOfStreamProtocol ==
    /\ [](Markers(frame_queue) \subseteq {Len(frame_queue)})
    /\ [](Markers(processed_queue) \subseteq {Len(processed_queue)})
    /\ [][/\ PutsOn(frame_queue, frame_queue') =>
                /\ p_pc \in {"read", "eos"} /\ Markers(frame_queue) = {}
                /\ PutsMarker(frame_queue, frame_queue') <=> (p_pc = "eos" /\ p_pc' = "done")
          /\ (p_pc = "eos" /\ p_pc' # p_pc) =>
                (PutsMarker(frame_queue, frame_queue') /\ frame_index = nframes)
          /\ p_pc = "done" => p_pc' = "done"]_vars
    /\ [][/\ PutsOn(processed_queue, processed_queue') =>
                /\ w_pc \in {"put", "eos"} /\ Markers(processed_queue) = {}
                /\ PutsMarker(processed_queue, processed_queue') <=>
                       (w_pc = "eos" /\ w_pc' = "done")
          /\ (w_pc = "eos" /\ w_pc' # w_pc) => PutsMarker(processed_queue, processed_queue')
          /\ w_pc = "done" => w_pc' = "done"]_vars

C28_Witness ==
    /\ p_pc = "done" /\ w_pc = "done" /\ nframes = 2 /\ c_pc = "open"
    /\ Len(processed_queue) = 3 /\ processed_queue[3] = SENTINEL
    /\ processed_queue[2].frame_index = 1

\* C29: when the detector was called for a frame, the buffer it was given has
\* every manual region emitted for that frame obfuscated.
C29_DetectorSeesObfuscated ==
    (det_seen.called /\ w_pc \in {"detect", "put"}) =>
        \A k \in 1 .. Len(manual_metadata) :
            \A p \in Pix(width, height) :
                InBox(p, manual_metadata[k].bbox) => det_seen.frame[p] = OBF

\* C30: a tracker whose update succeeded on the frame being processed and
\* whose clamped box was degenerate is still in the worker's tracker set when
\* the tracker loop of that frame has ended.
C30_SkippedTrackerKept ==
    w_pc \in {"detect", "put"} =>
        \A id \in w_skipped : \E e \in Range(tracker_entries) : e.id = id

\* C31: the consumer has emitted one progress event for each frame it wrote,
\* the k-th event for the k-th frame written; its `processed` field is k, and
\* its frame_index is processed - 1.
C31_ProgressPerFrame ==
    /\ Len(progress_events) = Len(video_out)
    /\ Len(progress_events) = processed_count
    /\ \A k \in 1 .. Len(progress_events) :
         /\ progress_events[k].processed = k
         /\ progress_events[k].frame_index = progress_events[k].processed - 1
         /\ progress_events[k].frame_index = video_out[k].frame_index

C31_Witness ==
    /\ c_pc = "done" /\ Len(progress_events) = MaxFrames
    /\ progress_events[MaxFrames] = [frame_index |-> MaxFrames - 1, processed |-> MaxFrames]

\* run_pipeline is past its five joins (lines 422-426).
PastJoins == m_pc \in {"finalizing", "finalize", "finalized", "done", "raised"}

\* C32: when the threads are scheduled fairly and the consumer has raised, then
\* (unless the producer or the worker raises as well) the producer and the
\* worker come to their end and run_pipeline gets past its joins.
C32_ConsumerErrorNoHang ==
    (c_pc = "raised") ~>
        \/ p_pc = "raised" \/ w_pc = "raised"
        \/ (p_pc = "done" /\ w_pc = "done" /\ PastJoins)

\* The positions of the events of job j that are `ev`.
EventsOf(j, ev) == {k \in 1 .. Len(events) : events[k].job = j /\ events[k].event = ev}

\* C33: for a jobId under which at most one job was started, at most one `exit`
\* event carries the jobId, and no event with that jobId follows it.
C33_OneExitLast ==
    \A j \in JobIds :
        Cardinality(EventsOf(j, "started")) <= 1 =>
            /\ Cardinality(EventsOf(j, "exit")) <= 1
            /\ \A k \in EventsOf(j, "exit") :
                 \A m \in k + 1 .. Len(events) : events[m].job # j

\* A step in which a start command is rejected because a job is still running.
RejectedAsRunning ==
    /\ Len(events') = Len(events) + 2
    /\ events'[Len(events) + 1].event = "error"
    /\ events'[Len(events) + 1].data = MsgRunning
\* A registered job whose `exit` event has not been emitted yet.
JobBeforeExit == \E j \in JobIds : jobs[j] # 0 /\ threads[jobs[j]].pc \in {"new", "call", "exit"}

\* C34: a start command is rejected with 'Another anonymization job is still
\* running' only when some job has not emitted its `exit` event yet.
C34_NoRejectAfterExit == [][RejectedAsRunning => JobBeforeExit]_vars

\* The file's last top-level box does not run to the end of the file, so that
\* a box appended to the file is a top-level box.
Appendable == mp_boxes = <<>> \/ mp_boxes[Len(mp_boxes)] \notin ToEofBoxes

\* C35: after a second pack was embedded into a file that holds an embedded
\* pack as a top-level box, extract returns the first pack, and the last header
\* it reads is that of the first pack's box.
C35_FirstPackReturned ==
    (mp_kind = "valid" /\ mp_second.exists /\ Appendable /\ mp_pc = "extracted") =>
        /\ mp_extract = Extracted(mp_pack.bytes)
        /\ mp_visited = TopLevelOffsets(mp_boxes, 0) \o <<Len(mp_input)>>

C35_Witness ==
    /\ mp_pc = "extracted" /\ mp_second = FileOf(<<1, 2>>) /\ mp_pack.bytes = <<1>>
    /\ mp_boxes = <<FreeBox(UuidBox(DEFAULT_PACK_UUID, <<8>>))>>
    /\ mp_extract = Extracted(<<1>>) /\ mp_visited = <<0, 33>>

\* C36: an HMAC key argument that anonymize accepted is accepted by restore,
\* which ends up with the same key.
C36_HmacKeyAccepted ==
    (anonymize_hmac.status = "ok" /\ restore_hmac # KeyPending) =>
        restore_hmac = anonymize_hmac

\* C37: in every call of extract, on well-formed, malformed and cut-off files
\* alike, the offsets at which the loop reads a header grow by at least 8 from
\* one iteration to the next, and the loop runs at most file_size / 8 + 1 times.
C37_OffsetAdvances ==
    mp_pc = "extracted" =>
        /\ \A k \in 1 .. Len(mp_visited) - 1 : mp_visited[k + 1] >= mp_visited[k] + 8
        /\ Len(mp_visited) <= (Len(Mp4Target.bytes) \div 8) + 1

C37_Witness ==
    /\ mp_pc = "extracted" /\ mp_kind = "truncated" /\ mp_embed.status = "none"
    /\ mp_visited = <<0, 8>> /\ Len(mp_input) = 20
    /\ mp_extract = ExtractFails("FileNotFoundError", MsgNoPack)

====
